---- MODULE Spec2Model ----
(***************************************************************************)
(* Per-tenant WhatsApp session manager (WhatsappSessionManagerService).    *)
(*                                                                         *)
(* The repository holds several definitions of the service.  Each one is   *)
(* modelled by its own specification over the same state:                  *)
(*   Spec            src/src/whats/whatsapp.service.ts, second definition  *)
(*                   (lines 224-490): plain check-then-create registry,    *)
(*                   logout that keeps the credential directory;           *)
(*   SpecHard        the same file, first definition (lines 1-222): the    *)
(*                   same registry, logout that removes the directory;     *)
(*   SpecPlaceholder src/unnamed/part_002, second definition (227-476):    *)
(*                   registry that installs `{}` before createClient;      *)
(*   SpecHealth      src/unnamed/part_003, third definition (400-678):     *)
(*                   registry that asks the driver for its state;          *)
(*   SpecVenom       src/unnamed/part_001: venom-bot driver.               *)
(*                                                                         *)
(* An async function is a sequence of atomic steps, one per stretch of     *)
(* code between two awaits; any other ready call or driver event may run   *)
(* between two steps.  When a call returns its locals are gone; `last`     *)
(* keeps what the most recent return looked like.                          *)
(***************************************************************************)
EXTENDS Integers, FiniteSets, Sequences, TLC

\* Number of service calls made in a run; call p is the p-th one made.
MaxCalls == 3
\* Number of session objects (clientData) constructed in a run.
MaxSessions == 2

\* The userIds the service is called with; "default" is the controller's fallback.
Users == {"u1", "u2", "default"}
\* The registered users.
Tenants == {"u1", "u2"}
\* The tenant of the single-tenant specifications.
Solo == {"u1"}
Calls == 1..MaxCalls
SessionIds == 1..MaxSessions

VARIABLES
  sessions,    \* this.sessions: userId -> 0 (no entry), -1 (the empty object {}), or a session id
  disk,        \* userId -> whether the tenant's session directory exists
  drv,         \* session id -> state of its driver (client)
  owner,       \* session id -> the userId createClient was called with
  info,        \* session id -> client.info is set
  promise,     \* session id -> clientReadyPromise: "pending", "resolved", "rejected"
  qrCode,      \* session id -> clientData.qrCode: 0 (null) or the number of the 'qr' event it shows
  pendingQr,   \* session id -> the 'qr' event whose handler is suspended in its rendering, or 0 (first definition, ungated: how many are)
  firstQrShown, \* session id -> createClient's local firstQrShown
  qrTimer,     \* session id -> qrExpirationTimer: "none", "armed", "fired" or "cleared"
  nQr,         \* session id -> number of 'qr' events its driver has emitted
  chatCache,   \* this.chatCache: userId -> [data, timestamp], data 0 when there is no entry
  nList,       \* number of driver listing calls (client.getChats) made
  clock,       \* Date.now(), counted in clock ticks
  since,       \* call -> Date.now() when it was made (getChats keeps it as `now`)
  attempts,    \* call -> getQRCode's local attempts: the 1-second waits it has made
  arg,         \* call -> its chatId and message arguments
  req,         \* call -> the HTTP request whose handler makes the call, when one does
  chk,         \* call -> checkAllSessions' loop: the keys its iterator passed, the sessions it called initialize() on, the state last reported
  pc,          \* call -> "idle" (not made yet), the await it is suspended at, or "done"
  op,          \* call -> the service method called
  usr,         \* call -> its userId argument
  cd,          \* call -> its local clientData (0 none, -1 the empty object, or a session id)
  nSignout,    \* call -> number of client.logout() invocations it made
  nDestroy,    \* call -> number of client.destroy() / close() invocations it made
  signout,     \* call -> how its awaited sign-out ended
  last         \* the most recent return: the call's locals and its outcome

qrVars == <<firstQrShown, qrTimer, nQr>>
cacheVars == <<chatCache, nList, clock>>
drvVars == <<drv, owner, info, promise, qrCode, pendingQr, qrVars>>
callVars == <<pc, op, usr, cd, nSignout, nDestroy, signout, since, attempts, arg, req, chk, last, cacheVars>>
vars == <<sessions, disk, drvVars, callVars>>

(* No entry in this.chatCache.  An entry is {data, timestamp}; storedAt     *)
(* remembers the time of the chatCache.set that wrote it.                  *)
NoCache == [data |-> 0, timestamp |-> 0, storedAt |-> 0]

\* No HTTP request: the method is called by other code of the application.
NoReq == [ctl |-> "none", route |-> "none", user |-> "none", sub |-> "unasked", st |-> "none"]
\* checkAllSessions' loop before it starts: no key passed, no initialize() called.
NoIter == [passed |-> {}, reinit |-> {}, state |-> "none"]
\* No chatId and message: the arguments of a method that takes only userId.
NoArg == [chatId |-> "none", text |-> "none"]
\* No client.sendMessage call.
NoSend == [chatId |-> "none", text |-> "none", mentions |-> <<>>]
\* No chat: what client.getChatById gives for an id it does not know.
NoChat == [found |-> FALSE, isGroup |-> FALSE, participants |-> <<>>]

NoReturn ==
  [op |-> "none", usr |-> "none", cd |-> 0, res |-> "none", signout |-> "none",
   destroyRes |-> "none", nSignout |-> 0, nDestroy |-> 0, data |-> 0, sent |-> NoSend,
   chat |-> NoChat, listing |-> <<>>, result |-> <<>>]

Init ==
  /\ sessions = [u \in Users |-> 0]
  /\ disk = [u \in Users |-> FALSE]
  /\ drv = [d \in SessionIds |-> "absent"]
  /\ owner = [d \in SessionIds |-> "none"]
  /\ info = [d \in SessionIds |-> FALSE]
  /\ promise = [d \in SessionIds |-> "none"]
  /\ qrCode = [d \in SessionIds |-> 0]
  /\ pendingQr = [d \in SessionIds |-> 0]
  /\ firstQrShown = [d \in SessionIds |-> FALSE]
  /\ qrTimer = [d \in SessionIds |-> "none"]
  /\ nQr = [d \in SessionIds |-> 0]
  /\ chatCache = [u \in Users |-> NoCache]
  /\ nList = 0
  /\ clock = 0
  /\ since = [p \in Calls |-> 0]
  /\ attempts = [p \in Calls |-> 0]
  /\ arg = [p \in Calls |-> NoArg]
  /\ req = [p \in Calls |-> NoReq]
  /\ chk = [p \in Calls |-> NoIter]
  /\ pc = [p \in Calls |-> "idle"]
  /\ op = [p \in Calls |-> "none"]
  /\ usr = [p \in Calls |-> "none"]
  /\ cd = [p \in Calls |-> 0]
  /\ nSignout = [p \in Calls |-> 0]
  /\ nDestroy = [p \in Calls |-> 0]
  /\ signout = [p \in Calls |-> "none"]
  /\ last = NoReturn

----------------------------------------------------------------------------
(* Helpers *)

\* Call p is the next one to be made.
Free(p) == pc[p] = "idle" /\ \A q \in Calls : q < p => pc[q] # "idle"

\* The session object the next `new Client(...)` yields.
HasFreshSession == \E d \in SessionIds : drv[d] = "absent"
FreshSession == CHOOSE d \in SessionIds : drv[d] = "absent" /\ \A e \in SessionIds : e < d => drv[e] # "absent"

\* A constructed driver whose browser has not been closed.
Undestroyed(d) == drv[d] \notin {"absent", "destroyed"}

\* Call p is made with arguments a and suspends at `at`; ns and nd are the
\* driver sign-out and disposal invocations it makes before that await.
EnterWith(p, o, u, c, at, ns, nd, a) ==
  /\ op' = [op EXCEPT ![p] = o]
  /\ usr' = [usr EXCEPT ![p] = u]
  /\ cd' = [cd EXCEPT ![p] = c]
  /\ pc' = [pc EXCEPT ![p] = at]
  /\ nSignout' = [nSignout EXCEPT ![p] = ns]
  /\ nDestroy' = [nDestroy EXCEPT ![p] = nd]
  /\ signout' = [signout EXCEPT ![p] = "none"]
  /\ since' = [since EXCEPT ![p] = clock]
  /\ attempts' = [attempts EXCEPT ![p] = 0]
  /\ arg' = [arg EXCEPT ![p] = a]
  /\ UNCHANGED <<last, cacheVars, req, chk>>

\* Call p is made, with no chatId or message argument.
Enter(p, o, u, c, at, ns, nd) == EnterWith(p, o, u, c, at, ns, nd, NoArg)

\* What a return with these locals and outcome leaves in `last`.
Return(o, u, c, r, so, dr, ns, nd) ==
  [op |-> o, usr |-> u, cd |-> c, res |-> r, signout |-> so,
   destroyRes |-> dr, nSignout |-> ns, nDestroy |-> nd, data |-> 0, sent |-> NoSend,
   chat |-> NoChat, listing |-> <<>>, result |-> <<>>]

\* Call p returns (r = "ok", "sent") or throws (r = "error"): its locals are gone.
LeaveLocals(p, ret) ==
  /\ pc' = [pc EXCEPT ![p] = "done"]
  /\ op' = [op EXCEPT ![p] = "none"]
  /\ usr' = [usr EXCEPT ![p] = "none"]
  /\ cd' = [cd EXCEPT ![p] = 0]
  /\ nSignout' = [nSignout EXCEPT ![p] = 0]
  /\ nDestroy' = [nDestroy EXCEPT ![p] = 0]
  /\ signout' = [signout EXCEPT ![p] = "none"]
  /\ since' = [since EXCEPT ![p] = 0]
  /\ attempts' = [attempts EXCEPT ![p] = 0]
  /\ arg' = [arg EXCEPT ![p] = NoArg]
  /\ last' = ret
  /\ UNCHANGED req

\* Call p returns or throws, leaving the chat cache as it is.
Leave(p, ret) ==
  /\ LeaveLocals(p, ret)
  /\ UNCHANGED <<cacheVars, chk>>

\* Call p is made and returns without suspending.
EnterAndLeave(p, ret) ==
  /\ pc' = [pc EXCEPT ![p] = "done"]
  /\ last' = ret
  /\ UNCHANGED <<op, usr, cd, nSignout, nDestroy, signout, since, attempts, arg, req, chk, cacheVars>>

\* Call p moves on to the await `at`.
Goto(p, at) ==
  /\ pc' = [pc EXCEPT ![p] = at]
  /\ UNCHANGED <<op, usr, cd, nSignout, nDestroy, signout, last, cacheVars, since, attempts, arg, req, chk>>

----------------------------------------------------------------------------
(* createClient, second definition of whatsapp.service.ts: constructs the  *)
(* Client, registers the handlers, calls client.initialize() and returns   *)
(* the session with a pending clientReadyPromise.                          *)
CreateClient(u, d) ==
  /\ drv' = [drv EXCEPT ![d] = "initializing"]
  /\ owner' = [owner EXCEPT ![d] = u]
  /\ info' = [info EXCEPT ![d] = FALSE]
  /\ promise' = [promise EXCEPT ![d] = "pending"]
  /\ qrCode' = [qrCode EXCEPT ![d] = 0]
  /\ pendingQr' = [pendingQr EXCEPT ![d] = 0]
  /\ firstQrShown' = [firstQrShown EXCEPT ![d] = FALSE]
  /\ qrTimer' = [qrTimer EXCEPT ![d] = "none"]
  /\ UNCHANGED nQr

\* getConnectionStatus: `!clientData.client || !clientData.client.info`.
StatusOf(d) == IF info[d] THEN "connected" ELSE "disconnected"

(* Where a call is suspended once getClientForUser holds a session:        *)
(* getChats, sendMessage and mentionEveryone go on to await                 *)
(* clientReadyPromise, getQRCode enters its polling loop,                   *)
(* getConnectionStatus is still suspended at                                *)
(* `await this.getClientForUser(userId)` and reads client.info when it      *)
(* resumes; a bare getClientForUser returns.                                *)
AfterClient(o) ==
  CASE o = "getQRCode" -> "qr_poll"
    [] o = "getConnectionStatus" -> "await_getClientForUser"
    [] o = "getClientForUser" -> "done"
    [] OTHER -> "wait_ready"

\* What a method that returns as soon as it holds session d reports.
ResultWith(o, d) == IF o = "getConnectionStatus" THEN StatusOf(d) ELSE "ok"

(* getClientForUser up to its first await, called on its own (o =          *)
(* "getClientForUser") or by another method of the service: an entry is    *)
(* returned as it is; otherwise createClient runs and the call suspends on *)
(* its result.                                                             *)
GetClientForUserWith(p, u, o, a) ==
  /\ Free(p)
  /\ IF sessions[u] # 0
       THEN /\ IF AfterClient(o) # "done"
                 THEN EnterWith(p, o, u, sessions[u], AfterClient(o), 0, 0, a)
                 ELSE EnterAndLeave(p, Return(o, u, sessions[u], ResultWith(o, sessions[u]),
                                            "none", "none", 0, 0))
            /\ UNCHANGED <<sessions, disk, drvVars>>
       ELSE /\ HasFreshSession
            /\ CreateClient(u, FreshSession)
            /\ EnterWith(p, o, u, FreshSession, "gc_set", 0, 0, a)
            /\ UNCHANGED <<sessions, disk>>

\* The same for a method called without chatId and message.
GetClientForUser(p, u, o) == GetClientForUserWith(p, u, o, NoArg)

(* getClientForUser after `await this.createClient(userId)`:               *)
(* this.sessions.set(userId, clientData); return clientData.               *)
GetClientSet(p) ==
  /\ pc[p] = "gc_set"
  /\ sessions' = [sessions EXCEPT ![usr[p]] = cd[p]]
  /\ IF AfterClient(op[p]) # "done"
       THEN Goto(p, AfterClient(op[p]))
       ELSE Leave(p, Return(op[p], usr[p], cd[p], ResultWith(op[p], cd[p]), "none", "none", 0, 0))
  /\ UNCHANGED <<disk, drvVars>>

(* getConnectionStatus resumes after `await this.getClientForUser(userId)`  *)
(* and reports client.info as it is then.                                   *)
StatusAfterClient(p) ==
  /\ pc[p] = "await_getClientForUser"
  /\ cd[p] \in SessionIds
  /\ Leave(p, Return(op[p], usr[p], cd[p], ResultWith(op[p], cd[p]), "none", "none", 0, 0))
  /\ UNCHANGED <<sessions, disk, drvVars>>

\* client.sendMessage(chatId, message, {mentions}) called with the arguments a.
Send(a, m) == [chatId |-> a.chatId, text |-> a.text, mentions |-> m]

\* The mutated sendMessage: client.sendMessage is called without the wait.
SendWithoutWaiting(p) ==
  /\ pc[p] = "wait_ready"
  /\ op[p] = "sendMessage"
  /\ cd[p] \in SessionIds
  /\ Leave(p, [Return(op[p], usr[p], cd[p], "sent", "none", "none", 0, 0)
                 EXCEPT !.sent = Send(arg[p], <<>>)])
  /\ UNCHANGED <<sessions, disk, drvVars>>

\* How an awaited driver call can end.
DriverOutcomes == {"ok", "throw"}

(* sendMessage after `await clientData.clientReadyPromise`: a rejected     *)
(* promise throws, a resolved one lets client.sendMessage be called, whose *)
(* promise is returned to the caller: when the driver's send ends as one   *)
(* of `outcomes`, a failure reaches the caller with no further step of the *)
(* service.                                                                *)
SendAfterReadyWith(p, outcomes) ==
  /\ pc[p] = "wait_ready"
  /\ op[p] = "sendMessage"
  /\ cd[p] \in SessionIds
  /\ promise[cd[p]] \in {"resolved", "rejected"}
  /\ \E o \in outcomes :
       Leave(p, [Return(op[p], usr[p], cd[p],
                        CASE promise[cd[p]] # "resolved" -> "error"
                          [] o = "ok" -> "sent"
                          [] OTHER -> "driverError",
                        "none", "none", 0, 0)
                   EXCEPT !.sent = IF promise[cd[p]] = "resolved" THEN Send(arg[p], <<>>) ELSE NoSend])
  /\ UNCHANGED <<sessions, disk, drvVars>>

\* The same with every way the driver's send can end.
SendAfterReady(p) == SendAfterReadyWith(p, DriverOutcomes)

----------------------------------------------------------------------------
(* Driver events, second definition of whatsapp.service.ts *)

\* `if (qrExpirationTimer) clearTimeout(qrExpirationTimer)`.
ClearTimer(d) == [qrTimer EXCEPT ![d] = IF @ = "armed" THEN "cleared" ELSE @]

(* 'ready': the expiry timer is cleared, resolve() settles a pending        *)
(* clientReadyPromise; client.info is set.                                  *)
EvReady(d) ==
  /\ drv[d] = "initializing"
  /\ drv' = [drv EXCEPT ![d] = "ready"]
  /\ info' = [info EXCEPT ![d] = TRUE]
  /\ qrTimer' = ClearTimer(d)
  /\ promise' = [promise EXCEPT ![d] = IF @ = "pending" THEN "resolved" ELSE @]
  /\ UNCHANGED <<sessions, disk, owner, qrCode, pendingQr, firstQrShown, nQr, callVars>>

\* 'auth_failure': the expiry timer is cleared, reject(msg) settles a pending clientReadyPromise.
EvAuthFailure(d) ==
  /\ drv[d] = "initializing"
  /\ drv' = [drv EXCEPT ![d] = "authFailed"]
  /\ qrTimer' = ClearTimer(d)
  /\ promise' = [promise EXCEPT ![d] = IF @ = "pending" THEN "rejected" ELSE @]
  /\ UNCHANGED <<sessions, disk, owner, info, qrCode, pendingQr, firstQrShown, nQr, callVars>>

\* 'disconnected': logged, the expiry timer is cleared; the session and its promise are left as they are.
EvDisconnected(d) ==
  /\ drv[d] = "ready"
  /\ drv' = [drv EXCEPT ![d] = "disconnected"]
  /\ qrTimer' = ClearTimer(d)
  /\ UNCHANGED <<sessions, disk, owner, info, promise, qrCode, pendingQr, firstQrShown, nQr, callVars>>

----------------------------------------------------------------------------
(* logout, second definition of whatsapp.service.ts *)

\* The mutated early return: the tenant's session directory is removed on the way out.
LogoutAbsentPurges(p, u) ==
  /\ Free(p)
  /\ sessions[u] = 0
  /\ EnterAndLeave(p, Return("logout", u, 0, "ok", "none", "none", 0, 0))
  /\ disk' = [disk EXCEPT ![u] = FALSE]
  /\ UNCHANGED <<sessions, drvVars>>

\* No entry for userId: warn and return.
LogoutAbsent(p, u) ==
  /\ Free(p)
  /\ sessions[u] = 0
  /\ EnterAndLeave(p, Return("logout", u, 0, "ok", "none", "none", 0, 0))
  /\ UNCHANGED <<sessions, disk, drvVars>>

(* An entry exists: with client.info set the sign-out race is started and  *)
(* awaited; otherwise control falls to the finally block, which calls      *)
(* client.destroy() and awaits it.                                         *)
LogoutStart(p, u) ==
  /\ Free(p)
  /\ sessions[u] \in SessionIds
  /\ IF info[sessions[u]]
       THEN Enter(p, "logout", u, sessions[u], "lo_signout", 1, 0)
       ELSE Enter(p, "logout", u, sessions[u], "lo_destroy", 0, 1)
  /\ UNCHANGED <<sessions, disk, drvVars>>

\* How Promise.race([client.logout(), 10 s timer]) can end.
SignoutOutcomes == {"ok", "error", "timeout"}
\* How client.destroy() can end.
DestroyOutcomes == {"ok", "throw"}

\* The mutated sign-out step: a fired timer starts the sign-out again.
LogoutSignoutRetries(p) ==
  /\ pc[p] = "lo_signout"
  /\ \E o \in SignoutOutcomes :
       /\ signout' = [signout EXCEPT ![p] = o]
       /\ IF o = "timeout" /\ nSignout[p] < 2
            THEN /\ nSignout' = [nSignout EXCEPT ![p] = @ + 1]
                 /\ UNCHANGED <<pc, nDestroy>>
            ELSE /\ nDestroy' = [nDestroy EXCEPT ![p] = @ + 1]
                 /\ pc' = [pc EXCEPT ![p] = "lo_destroy"]
                 /\ UNCHANGED nSignout
  /\ UNCHANGED <<sessions, disk, drvVars, op, usr, cd, last, cacheVars, since, attempts, arg, req, chk>>

(* The sign-out race settles: resolved, rejected by the driver, or rejected *)
(* by the timer.  A rejection is caught and logged.  The finally block then *)
(* calls client.destroy() and awaits it.                                    *)
LogoutSignoutSettles(p) ==
  /\ pc[p] = "lo_signout"
  /\ \E o \in SignoutOutcomes : signout' = [signout EXCEPT ![p] = o]
  /\ nDestroy' = [nDestroy EXCEPT ![p] = @ + 1]
  /\ pc' = [pc EXCEPT ![p] = "lo_destroy"]
  /\ UNCHANGED <<sessions, disk, drvVars, op, usr, cd, nSignout, last, cacheVars, since, attempts, arg, req, chk>>

\* The drivers after an awaited client.destroy() on session d ended with outcome o.
Disposed(d, o) == IF o = "ok" THEN [drv EXCEPT ![d] = "destroyed"] ELSE drv

\* The mutated eviction: the entry is deleted only after a clean disposal.
EvictedIfDisposed(u, o) == IF o = "ok" THEN [sessions EXCEPT ![u] = 0] ELSE sessions

\* The mutated eviction: the whole map is cleared.
EvictedAll(u, o) == [v \in Users |-> 0]

\* this.sessions.delete(userId) in the finally block, whatever destroy() did.
Evicted(u, o) == [sessions EXCEPT ![u] = 0]

\* The mutated end of logout: the tenant's chat-cache entry is deleted with the session.
LogoutDestroySettlesClearing(p) ==
  /\ pc[p] = "lo_destroy"
  /\ \E o \in DestroyOutcomes :
       /\ drv' = Disposed(cd[p], o)
       /\ sessions' = Evicted(usr[p], o)
       /\ LeaveLocals(p, Return("logout", usr[p], cd[p], "ok", signout[p], o, nSignout[p], nDestroy[p]))
  /\ chatCache' = [chatCache EXCEPT ![usr[p]] = NoCache]
  /\ UNCHANGED <<disk, owner, info, promise, qrCode, pendingQr, qrVars, nList, clock, chk>>

(* client.destroy() settles (a throw is caught and logged); then           *)
(* this.sessions.delete(userId) and the call returns.                      *)
LogoutDestroySettles(p) ==
  /\ pc[p] = "lo_destroy"
  /\ \E o \in DestroyOutcomes :
       /\ drv' = Disposed(cd[p], o)
       /\ sessions' = Evicted(usr[p], o)
       /\ Leave(p, Return("logout", usr[p], cd[p], "ok", signout[p], o, nSignout[p], nDestroy[p]))
  /\ UNCHANGED <<disk, owner, info, promise, qrCode, pendingQr, qrVars>>

----------------------------------------------------------------------------
Next ==
  \/ \E p \in Calls, u \in Solo : GetClientForUser(p, u, "getClientForUser")
  \/ \E p \in Calls, u \in Solo : GetClientForUser(p, u, "sendMessage")
  \/ \E p \in Calls : GetClientSet(p)
  \/ \E p \in Calls : SendAfterReady(p)
  \/ \E d \in SessionIds : EvReady(d)
  \/ \E d \in SessionIds : EvAuthFailure(d)
  \/ \E d \in SessionIds : EvDisconnected(d)
  \/ \E p \in Calls, u \in Solo : LogoutAbsent(p, u)
  \/ \E p \in Calls, u \in Solo : LogoutStart(p, u)
  \/ \E p \in Calls : LogoutSignoutSettles(p)
  \/ \E p \in Calls : LogoutDestroySettles(p)

Spec == Init /\ [][Next]_vars

(* The sign-out race always settles (its timer fires after 10 s), and the   *)
(* awaited client.destroy() is taken to settle.                             *)
FairSpec ==
  /\ Spec
  /\ \A p \in Calls : WF_vars(LogoutSignoutSettles(p)) /\ WF_vars(LogoutDestroySettles(p))

----------------------------------------------------------------------------
(* First definition of whatsapp.service.ts (lines 1-222).  getClientForUser *)
(* and the first part of logout read as in the second definition; the 'qr' *)
(* and 'ready' handlers and the end of logout differ.                      *)

(* Number of 'qr' events one driver emits in a run, and of 'qr' handlers    *)
(* suspended in their rendering at one time.                                *)
MaxQr == 2

(* 'qr': the handler logs and suspends in `await QRCode.toDataURL(qr)`.     *)
(* Nothing gates the event: every 'qr' starts a rendering of its own, and   *)
(* pendingQr counts the handlers suspended.                                 *)
EvQrHard(d) ==
  /\ drv[d] = "initializing"
  /\ pendingQr[d] < MaxQr
  /\ pendingQr' = [pendingQr EXCEPT ![d] = @ + 1]
  /\ UNCHANGED <<sessions, disk, drv, owner, info, promise, qrCode, qrVars, callVars>>

\* How the rest of the 'qr' handler can go: rendering throws, the disk write throws, or neither.
QrOutcomes == {"ok", "renderThrows", "writeThrows"}

(* One suspended 'qr' handler resumes: clientData.qrCode = dataUrl, then    *)
(* the session directory is created and qr.png written; a throw is caught   *)
(* and logged.                                                              *)
QrRenderedHard(d) ==
  /\ pendingQr[d] # 0
  /\ pendingQr' = [pendingQr EXCEPT ![d] = @ - 1]
  /\ \E o \in QrOutcomes :
       /\ qrCode' = [qrCode EXCEPT ![d] = IF o = "renderThrows" THEN @ ELSE 1]
       /\ disk' = [disk EXCEPT ![owner[d]] = IF o = "ok" THEN TRUE ELSE @]
  /\ UNCHANGED <<sessions, drv, owner, info, promise, qrVars, callVars>>

\* 'ready': clientData.qrCode = null; resolve().
EvReadyHard(d) ==
  /\ drv[d] = "initializing"
  /\ drv' = [drv EXCEPT ![d] = "ready"]
  /\ info' = [info EXCEPT ![d] = TRUE]
  /\ qrCode' = [qrCode EXCEPT ![d] = 0]
  /\ promise' = [promise EXCEPT ![d] = IF @ = "pending" THEN "resolved" ELSE @]
  /\ UNCHANGED <<sessions, disk, owner, pendingQr, qrVars, callVars>>

\* How the removal of the session directory can end.
RemoveOutcomes == {"ok", "throw"}

\* The directories after `if (fs.existsSync(dataPath)) fs.rmSync(dataPath, ...)` ended with outcome o.
Removed(u, o) == IF disk[u] /\ o = "ok" THEN [disk EXCEPT ![u] = FALSE] ELSE disk

(* client.destroy() settles (a throw is caught and logged); then            *)
(* this.sessions.delete(userId), and the session directory is removed       *)
(* inside its own try/catch.                                                *)
LogoutDestroySettlesHard(p) ==
  /\ pc[p] = "lo_destroy"
  /\ \E o \in DestroyOutcomes :
       /\ drv' = Disposed(cd[p], o)
       /\ sessions' = Evicted(usr[p], o)
       /\ Leave(p, Return("logout", usr[p], cd[p], "ok", signout[p], o, nSignout[p], nDestroy[p]))
  /\ \E r \in RemoveOutcomes : disk' = Removed(usr[p], r)
  /\ UNCHANGED <<owner, info, promise, qrCode, pendingQr, qrVars>>


----------------------------------------------------------------------------
(* Second definition of src/unnamed/part_002 (lines 227-476): the registry *)
(* installs the empty object {} under userId before it awaits createClient. *)
(* The 'ready', 'auth_failure' and 'disconnected' handlers settle the       *)
(* promise as in whatsapp.service.ts.                                       *)

\* createClient: getAuthStrategy creates the session directory, then as CreateClient.
CreateClientPh(u, d) ==
  /\ disk' = [disk EXCEPT ![u] = TRUE]
  /\ CreateClient(u, d)

(* How createClient can end: the session; a throw of getAuthStrategy's      *)
(* fs.mkdirSync, before anything was built; or a throw of `new LocalAuth`   *)
(* or `new Client`, after the session directory was created.                *)
ConstructOutcomes == {"ok", "throw", "throwAfterMkdir"}

(* getClientForUser, called on its own or by method o, up to its first      *)
(* await: whatever is stored under userId is returned, the empty object     *)
(* included; with no entry the empty object is stored and createClient      *)
(* runs.  When createClient throws, its promise is rejected and the call    *)
(* is suspended at `await this.createClient(userId)` with the empty object  *)
(* stored.                                                                  *)
GetClientForUserPh(p, u, o) ==
  /\ Free(p)
  /\ IF sessions[u] # 0
       THEN /\ IF AfterClient(o) # "done"
                 THEN Enter(p, o, u, sessions[u], AfterClient(o), 0, 0)
                 ELSE EnterAndLeave(p, Return(o, u, sessions[u], "ok", "none", "none", 0, 0))
            /\ UNCHANGED <<sessions, disk, drvVars>>
       ELSE /\ sessions' = [sessions EXCEPT ![u] = -1]
            /\ \E c \in ConstructOutcomes :
                 IF c = "ok"
                   THEN /\ HasFreshSession
                        /\ CreateClientPh(u, FreshSession)
                        /\ Enter(p, o, u, FreshSession, "gc_set", 0, 0)
                   ELSE /\ Enter(p, o, u, 0, "gc_throw", 0, 0)
                        /\ disk' = [disk EXCEPT ![u] = IF c = "throwAfterMkdir" THEN TRUE ELSE @]
                        /\ UNCHANGED drvVars

(* The rejection of createClient reaches getClientForUser, which has no     *)
(* catch: it leaves getClientForUser and its caller; the empty object stays *)
(* stored.                                                                  *)
GetClientRejectsPh(p) ==
  /\ pc[p] = "gc_throw"
  /\ Leave(p, Return(op[p], usr[p], 0, "error", "none", "none", 0, 0))
  /\ UNCHANGED <<sessions, disk, drvVars>>

(* sendMessage after `await clientReadyPromise`.  Destructured from the     *)
(* empty object, clientReadyPromise is undefined, the await does not block  *)
(* and client.sendMessage throws a TypeError: no driver is called.  On a    *)
(* session whose promise resolved client.sendMessage is called and its      *)
(* promise returned: a failure of the driver's send reaches the caller.     *)
SendAfterReadyPh(p) ==
  /\ pc[p] = "wait_ready"
  /\ op[p] = "sendMessage"
  /\ \/ cd[p] = -1
     \/ cd[p] \in SessionIds /\ promise[cd[p]] \in {"resolved", "rejected"}
  /\ \E o \in DriverOutcomes :
       Leave(p, Return(op[p], usr[p], cd[p],
                       CASE ~(cd[p] \in SessionIds /\ promise[cd[p]] = "resolved") -> "error"
                         [] o = "ok" -> "sent"
                         [] OTHER -> "driverError",
                       "none", "none", 0, 0))
  /\ UNCHANGED <<sessions, disk, drvVars>>

(* The directories after the unguarded                                      *)
(* fs.rmSync(sessionDir, {recursive: true, force: true}) ended with o.      *)
RemovedForce(u, o) == IF o = "ok" THEN [disk EXCEPT ![u] = FALSE] ELSE disk

(* logout with an entry.  On the empty object `client` is undefined: both   *)
(* client.info and client.destroy() throw a TypeError that is caught, the   *)
(* entry is deleted and the directory removed, all before any await.  On a  *)
(* session, with client.info set the sign-out race is awaited, otherwise    *)
(* client.destroy() is.                                                     *)
LogoutStartPh(p, u) ==
  /\ Free(p)
  /\ sessions[u] # 0
  /\ IF sessions[u] = -1
       THEN /\ sessions' = [sessions EXCEPT ![u] = 0]
            /\ \E r \in RemoveOutcomes :
                 /\ disk' = RemovedForce(u, r)
                 /\ EnterAndLeave(p, Return("logout", u, -1, IF r = "ok" THEN "ok" ELSE "error",
                                            "none", "none", 0, 0))
            /\ UNCHANGED drvVars
       ELSE /\ IF info[sessions[u]]
                 THEN Enter(p, "logout", u, sessions[u], "lo_signout", 1, 0)
                 ELSE Enter(p, "logout", u, sessions[u], "lo_destroy", 0, 1)
            /\ UNCHANGED <<sessions, disk, drvVars>>

(* client.destroy() settles (a throw is caught and logged); then            *)
(* this.sessions.delete(userId) and fs.rmSync(sessionDir), whose throw      *)
(* leaves logout through its caller.                                        *)
LogoutDestroySettlesPh(p) ==
  /\ pc[p] = "lo_destroy"
  /\ \E o \in DestroyOutcomes, r \in RemoveOutcomes :
       /\ drv' = Disposed(cd[p], o)
       /\ sessions' = Evicted(usr[p], o)
       /\ disk' = RemovedForce(usr[p], r)
       /\ Leave(p, Return("logout", usr[p], cd[p], IF r = "ok" THEN "ok" ELSE "error",
                          signout[p], o, nSignout[p], nDestroy[p]))
  /\ UNCHANGED <<owner, info, promise, qrCode, pendingQr, qrVars>>


----------------------------------------------------------------------------
(* Third definition of src/unnamed/part_003 (lines 400-678):                *)
(* getClientForUser asks a registered driver for its state, and logout      *)
(* signs out whenever the session holds a driver.                           *)

\* createClient: fs.mkdirSync(dataPath), then the driver is constructed and initialized.
CreateClientHl(u, d) ==
  /\ disk' = [disk EXCEPT ![u] = TRUE]
  /\ CreateClient(u, d)

(* What `await clientData.client.getState()` can give: a connection state,  *)
(* 'CONNECTED' only for a driver that authenticated, or a rejection.        *)
GetStateOutcomes(d) ==
  IF drv[d] = "ready" THEN {"CONNECTED", "other", "throw"} ELSE {"other", "throw"}

(* getClientForUser up to its first await: client.getState() of the         *)
(* registered session, or createClient when nothing is registered.          *)
GetClientForUserHl(p, u, o) ==
  /\ Free(p)
  /\ IF sessions[u] # 0
       THEN /\ Enter(p, o, u, sessions[u], "gs_wait", 0, 0)
            /\ UNCHANGED <<sessions, disk, drvVars>>
       ELSE /\ HasFreshSession
            /\ CreateClientHl(u, FreshSession)
            /\ Enter(p, o, u, FreshSession, "gc_set", 0, 0)
            /\ UNCHANGED sessions

(* getState settled.  'CONNECTED' returns the registered session; any other *)
(* state falls through to createClient; a rejection is caught and           *)
(* this.logout(userId) is awaited, which returns at once with no entry and  *)
(* otherwise calls client.logout() of the session registered now.           *)
GetStateSettles(p) ==
  /\ pc[p] = "gs_wait"
  /\ \E r \in GetStateOutcomes(cd[p]) :
       \/ /\ r = "CONNECTED"
          /\ Leave(p, Return(op[p], usr[p], cd[p], "ok", "none", "none", 0, 0))
          /\ UNCHANGED <<sessions, disk, drvVars>>
       \/ /\ r = "other"
          /\ HasFreshSession
          /\ CreateClientHl(usr[p], FreshSession)
          /\ cd' = [cd EXCEPT ![p] = FreshSession]
          /\ pc' = [pc EXCEPT ![p] = "gc_set"]
          /\ UNCHANGED <<sessions, op, usr, nSignout, nDestroy, signout, last, cacheVars, since, attempts, arg, req, chk>>
       \/ /\ r = "throw"
          /\ IF sessions[usr[p]] = 0
               THEN Goto(p, "gs_create")
               ELSE /\ cd' = [cd EXCEPT ![p] = sessions[usr[p]]]
                    /\ nSignout' = [nSignout EXCEPT ![p] = 1]
                    /\ pc' = [pc EXCEPT ![p] = "lo_signout"]
                    /\ UNCHANGED <<op, usr, nDestroy, signout, last, cacheVars, since, attempts, arg, req, chk>>
          /\ UNCHANGED <<sessions, disk, drvVars>>

\* getClientForUser resumes after `await this.logout(userId)`: createClient.
GetClientCreateHl(p) ==
  /\ pc[p] = "gs_create"
  /\ HasFreshSession
  /\ CreateClientHl(usr[p], FreshSession)
  /\ cd' = [cd EXCEPT ![p] = FreshSession]
  /\ nSignout' = [nSignout EXCEPT ![p] = 0]
  /\ nDestroy' = [nDestroy EXCEPT ![p] = 0]
  /\ signout' = [signout EXCEPT ![p] = "none"]
  /\ pc' = [pc EXCEPT ![p] = "gc_set"]
  /\ UNCHANGED <<sessions, op, usr, last, cacheVars, since, attempts, arg, req, chk>>

\* 'disconnected' handler: isReady = false, qrCode = null.
EvDisconnectedHl(d) ==
  /\ drv[d] = "ready"
  /\ drv' = [drv EXCEPT ![d] = "disconnected"]
  /\ qrCode' = [qrCode EXCEPT ![d] = 0]
  /\ UNCHANGED <<sessions, disk, owner, info, promise, pendingQr, qrVars, callVars>>

(* logout with an entry: clientData.client is always set, so                *)
(* client.logout() is called and awaited, with no timer beside it.          *)
LogoutStartHl(p, u) ==
  /\ Free(p)
  /\ sessions[u] \in SessionIds
  /\ Enter(p, "logout", u, sessions[u], "lo_signout", 1, 0)
  /\ UNCHANGED <<sessions, disk, drvVars>>

\* How the awaited client.logout() can end when it settles.
SignoutOutcomesHl == {"ok", "error"}

\* client.logout() settled (a rejection is caught and logged); client.destroy() is called.
LogoutSignoutSettlesHl(p) ==
  /\ pc[p] = "lo_signout"
  /\ \E o \in SignoutOutcomesHl :
       /\ signout' = [signout EXCEPT ![p] = o]
       /\ nDestroy' = [nDestroy EXCEPT ![p] = @ + 1]
       /\ pc' = [pc EXCEPT ![p] = "lo_destroy"]
  /\ UNCHANGED <<sessions, disk, drvVars, op, usr, cd, nSignout, last, cacheVars, since, attempts, arg, req, chk>>

(* client.destroy() settled; the finally block deletes the entry and        *)
(* removes the directory inside its own try/catch.  logout returns to its   *)
(* caller, which is getClientForUser when the state check had failed.       *)
LogoutDestroySettlesHl(p) ==
  /\ pc[p] = "lo_destroy"
  /\ \E o \in DestroyOutcomes, r \in RemoveOutcomes :
       /\ drv' = Disposed(cd[p], o)
       /\ sessions' = Evicted(usr[p], o)
       /\ disk' = Removed(usr[p], r)
       /\ IF op[p] = "logout"
            THEN Leave(p, Return("logout", usr[p], cd[p], "ok", signout[p], o,
                                 nSignout[p], nDestroy[p]))
            ELSE Goto(p, "gs_create")
  /\ UNCHANGED <<owner, info, promise, qrCode, pendingQr, qrVars>>

NextHealth ==
  \/ \E p \in Calls, u \in Solo : GetClientForUserHl(p, u, "getClientForUser")
  \/ \E p \in Calls : GetStateSettles(p)
  \/ \E p \in Calls : GetClientCreateHl(p)
  \/ \E p \in Calls : GetClientSet(p)
  \/ \E d \in SessionIds : EvReadyHard(d)
  \/ \E d \in SessionIds : EvAuthFailure(d)
  \/ \E d \in SessionIds : EvDisconnectedHl(d)
  \/ \E p \in Calls, u \in Solo : LogoutAbsent(p, u)
  \/ \E p \in Calls, u \in Solo : LogoutStartHl(p, u)
  \/ \E p \in Calls : LogoutSignoutSettlesHl(p)
  \/ \E p \in Calls : LogoutDestroySettlesHl(p)

SpecHealth == Init /\ [][NextHealth]_vars

----------------------------------------------------------------------------
(* src/unnamed/part_001: the venom-bot service.  clientData.client is null  *)
(* until create() resolves; info[d] stands for "clientData.client is set".  *)

(* createClient: the session directory is created, create() starts the      *)
(* browser, and the session is returned with client: null.                  *)
CreateClientVn(u, d) ==
  /\ disk' = [disk EXCEPT ![u] = TRUE]
  /\ CreateClient(u, d)

(* getClientForUser, called on its own or by method o: the registered       *)
(* session, or createClient then sessions.set.                              *)
GetClientForUserVn(p, u, o) ==
  /\ Free(p)
  /\ IF sessions[u] # 0
       THEN /\ IF AfterClient(o) # "done"
                 THEN Enter(p, o, u, sessions[u], AfterClient(o), 0, 0)
                 ELSE EnterAndLeave(p, Return(o, u, sessions[u], "ok", "none", "none", 0, 0))
            /\ UNCHANGED <<sessions, disk, drvVars>>
       ELSE /\ HasFreshSession
            /\ CreateClientVn(u, FreshSession)
            /\ Enter(p, o, u, FreshSession, "gc_set", 0, 0)
            /\ UNCHANGED sessions

(* The QR callback of create(): qrCode = qr, then qr.txt is written into    *)
(* the session directory (the write fails when the directory is gone).      *)
EvQrVn(d) ==
  /\ drv[d] = "initializing"
  /\ qrCode' = [qrCode EXCEPT ![d] = 1]
  /\ UNCHANGED <<sessions, disk, drv, owner, info, promise, pendingQr, qrVars, callVars>>

\* create() resolved: client is stored, qrCode cleared, the ready promise resolved.
EvCreatedVn(d) ==
  /\ drv[d] = "initializing"
  /\ drv' = [drv EXCEPT ![d] = "ready"]
  /\ info' = [info EXCEPT ![d] = TRUE]
  /\ qrCode' = [qrCode EXCEPT ![d] = 0]
  /\ promise' = [promise EXCEPT ![d] = "resolved"]
  /\ UNCHANGED <<sessions, disk, owner, pendingQr, qrVars, callVars>>

\* create() rejected: the ready promise is rejected.
EvCreateFailedVn(d) ==
  /\ drv[d] = "initializing"
  /\ drv' = [drv EXCEPT ![d] = "failed"]
  /\ promise' = [promise EXCEPT ![d] = "rejected"]
  /\ UNCHANGED <<sessions, disk, owner, info, qrCode, pendingQr, qrVars, callVars>>

(* logout with an entry.  With clientData.client set, client.close() is     *)
(* awaited; with client still null nothing is closed: the entry is deleted  *)
(* and the directory removed before logout returns.                         *)
LogoutStartVn(p, u) ==
  /\ Free(p)
  /\ sessions[u] \in SessionIds
  /\ IF info[sessions[u]]
       THEN /\ Enter(p, "logout", u, sessions[u], "lo_destroy", 0, 1)
            /\ UNCHANGED <<sessions, disk>>
       ELSE /\ sessions' = [sessions EXCEPT ![u] = 0]
            /\ \E r \in RemoveOutcomes : disk' = Removed(u, r)
            /\ EnterAndLeave(p, Return("logout", u, sessions[u], "ok", "none", "none", 0, 0))
  /\ UNCHANGED drvVars

(* client.close() settled (a throw is caught and logged); the finally       *)
(* block deletes the entry and removes the directory in its own try/catch.  *)
LogoutCloseSettlesVn(p) ==
  /\ pc[p] = "lo_destroy"
  /\ \E o \in DestroyOutcomes, r \in RemoveOutcomes :
       /\ drv' = Disposed(cd[p], o)
       /\ sessions' = Evicted(usr[p], o)
       /\ disk' = Removed(usr[p], r)
       /\ Leave(p, Return("logout", usr[p], cd[p], "ok", signout[p], o,
                          nSignout[p], nDestroy[p]))
  /\ UNCHANGED <<owner, info, promise, qrCode, pendingQr, qrVars>>


----------------------------------------------------------------------------
(* The handlers createClient registers in the second definition of          *)
(* whatsapp.service.ts (lines 272-343), with the 'qr' handler's gate and    *)
(* expiry timer.  The driver is a library: it may emit 'qr' while it is not *)
(* authenticated, and 'ready', 'auth_failure' and 'disconnected' again      *)
(* after an earlier one.                                                    *)

(* resolve() / reject(msg) of clientReadyPromise: a promise that is already *)
(* settled keeps its outcome.                                               *)
SettleAgain(d, o) == [promise EXCEPT ![d] = o]
Settle(d, o) == [promise EXCEPT ![d] = IF @ = "pending" THEN o ELSE @]

(* 'qr' handler up to its await: with firstQrShown set the event is         *)
(* ignored; otherwise firstQrShown is set and QRCode.toString is awaited.   *)
EvQrUngated(d) ==
  /\ drv[d] \in {"initializing", "disconnected", "authFailed"}
  /\ nQr[d] < MaxQr
  /\ nQr' = [nQr EXCEPT ![d] = @ + 1]
  /\ firstQrShown' = [firstQrShown EXCEPT ![d] = TRUE]
  /\ pendingQr' = [pendingQr EXCEPT ![d] = nQr[d] + 1]
  /\ UNCHANGED <<sessions, disk, drv, owner, info, promise, qrCode, qrTimer, callVars>>
EvQr(d) ==
  /\ drv[d] \in {"initializing", "disconnected", "authFailed"}
  /\ nQr[d] < MaxQr
  /\ nQr' = [nQr EXCEPT ![d] = @ + 1]
  /\ IF firstQrShown[d]
       THEN UNCHANGED <<firstQrShown, pendingQr>>
       ELSE /\ firstQrShown' = [firstQrShown EXCEPT ![d] = TRUE]
            /\ pendingQr' = [pendingQr EXCEPT ![d] = nQr[d] + 1]
  /\ UNCHANGED <<sessions, disk, drv, owner, info, promise, qrCode, qrTimer, callVars>>

(* The 'qr' handler resumes.  "ok": qrCode = asciiQr, the files are written *)
(* and the 2-minute timer is armed.  When the rendering or a write throws,  *)
(* the catch block tries to write qr_data.txt (w: whether that leaves the   *)
(* directory in place) and stores the fallback text; no timer is armed.     *)
QrRendered(d) ==
  /\ pendingQr[d] # 0
  /\ pendingQr' = [pendingQr EXCEPT ![d] = 0]
  /\ qrCode' = [qrCode EXCEPT ![d] = pendingQr[d]]
  /\ \E o \in QrOutcomes, w \in BOOLEAN :
       /\ qrTimer' = [qrTimer EXCEPT ![d] = IF o = "ok" THEN "armed" ELSE @]
       /\ disk' = [disk EXCEPT ![owner[d]] = IF o = "ok" THEN TRUE ELSE (@ \/ w)]
  /\ UNCHANGED <<sessions, drv, owner, info, promise, firstQrShown, nQr, callVars>>

\* The 2-minute timer fires: `if (clientData.qrCode) clientData.qrCode = null`.
QrExpires(d) ==
  /\ qrTimer[d] = "armed"
  /\ qrTimer' = [qrTimer EXCEPT ![d] = "fired"]
  /\ qrCode' = [qrCode EXCEPT ![d] = 0]
  /\ UNCHANGED <<sessions, disk, drv, owner, info, promise, pendingQr, firstQrShown, nQr, callVars>>

\* 'ready': the timer is cleared and resolve() is called; qrCode is kept.
EvReadyQ(d) ==
  /\ drv[d] \in {"initializing", "disconnected", "authFailed"}
  /\ drv' = [drv EXCEPT ![d] = "ready"]
  /\ info' = [info EXCEPT ![d] = TRUE]
  /\ qrTimer' = ClearTimer(d)
  /\ promise' = Settle(d, "resolved")
  /\ UNCHANGED <<sessions, disk, owner, qrCode, pendingQr, firstQrShown, nQr, callVars>>

\* 'auth_failure': the timer is cleared and reject(msg) is called.
EvAuthFailureQ(d) ==
  /\ drv[d] \in {"initializing", "disconnected", "ready"}
  /\ drv' = [drv EXCEPT ![d] = "authFailed"]
  /\ qrTimer' = ClearTimer(d)
  /\ promise' = Settle(d, "rejected")
  /\ UNCHANGED <<sessions, disk, owner, info, qrCode, pendingQr, firstQrShown, nQr, callVars>>

\* 'disconnected': the timer is cleared.
EvDisconnectedQ(d) ==
  /\ drv[d] \in {"ready", "authFailed"}
  /\ drv' = [drv EXCEPT ![d] = "disconnected"]
  /\ qrTimer' = ClearTimer(d)
  /\ UNCHANGED <<sessions, disk, owner, info, promise, qrCode, pendingQr, firstQrShown, nQr, callVars>>

(* sendMessage is called while no other call is suspended in createClient: *)
(* the requests of this specification do not race a construction.          *)
SendMessageQr(p, u) ==
  /\ \A q \in Calls : pc[q] # "gc_set"
  /\ GetClientForUser(p, u, "sendMessage")

NextQr ==
  \/ \E p \in Calls, u \in Solo : SendMessageQr(p, u)
  \/ \E p \in Calls : GetClientSet(p)
  \/ \E p \in Calls : SendAfterReady(p)
  \/ \E d \in SessionIds : EvQr(d)
  \/ \E d \in SessionIds : QrRendered(d)
  \/ \E d \in SessionIds : QrExpires(d)
  \/ \E d \in SessionIds : EvReadyQ(d)
  \/ \E d \in SessionIds : EvAuthFailureQ(d)
  \/ \E d \in SessionIds : EvDisconnectedQ(d)

SpecQr == Init /\ [][NextQr]_vars

(* The steps the service itself takes are taken: a suspended handler or     *)
(* call resumes once what it awaits has settled, and an armed timer fires.  *)
(* Nothing obliges the driver to emit an event.                             *)
FairSpecQr ==
  /\ SpecQr
  /\ \A p \in Calls : WF_vars(GetClientSet(p)) /\ WF_vars(SendAfterReady(p))
  /\ \A d \in SessionIds : WF_vars(QrRendered(d)) /\ WF_vars(QrExpires(d))

----------------------------------------------------------------------------
(* The same handlers in the second definition of src/unnamed/part_002       *)
(* (lines 281-349): only the expiry timer differs.                          *)

\* The 2-minute timer fires: qrCode = null and firstQrShown = false.
QrExpiresPh(d) ==
  /\ qrTimer[d] = "armed"
  /\ qrTimer' = [qrTimer EXCEPT ![d] = "fired"]
  /\ qrCode' = [qrCode EXCEPT ![d] = 0]
  /\ firstQrShown' = [firstQrShown EXCEPT ![d] = FALSE]
  /\ UNCHANGED <<sessions, disk, drv, owner, info, promise, pendingQr, nQr, callVars>>

\* sendMessage is called while no other call is suspended in createClient.
SendMessageQrPh(p, u) ==
  /\ \A q \in Calls : pc[q] # "gc_set"
  /\ GetClientForUserPh(p, u, "sendMessage")

NextQrPh ==
  \/ \E p \in Calls, u \in Solo : SendMessageQrPh(p, u)
  \/ \E p \in Calls : GetClientRejectsPh(p)
  \/ \E p \in Calls : GetClientSet(p)
  \/ \E p \in Calls : SendAfterReadyPh(p)
  \/ \E d \in SessionIds : EvQr(d)
  \/ \E d \in SessionIds : QrRendered(d)
  \/ \E d \in SessionIds : QrExpiresPh(d)
  \/ \E d \in SessionIds : EvReadyQ(d)
  \/ \E d \in SessionIds : EvAuthFailureQ(d)
  \/ \E d \in SessionIds : EvDisconnectedQ(d)

SpecQrPh == Init /\ [][NextQrPh]_vars

----------------------------------------------------------------------------
(* getChats, sendMessage and mentionEveryone of the second definition of    *)
(* whatsapp.service.ts (lines 355-416), with the chat cache.  Time is       *)
(* counted in minutes.                                                      *)

\* this.CACHE_TTL (5 * 60 * 1000 ms), in minutes.
CACHE_TTL == 5
\* The last minute of a run.
MaxTime == 6

\* The mutated test: an entry whose age equals the TTL still hits.
CacheHitAtTtl(u) == chatCache[u].data # 0 /\ clock - chatCache[u].timestamp <= CACHE_TTL

\* `cache && now - cache.timestamp < this.CACHE_TTL`, with `now` the current time.
CacheHit(u) == chatCache[u].data # 0 /\ clock - chatCache[u].timestamp < CACHE_TTL

(* getChats up to its first await: a cache hit returns cache.data;          *)
(* otherwise `now` is kept and getClientForUser is awaited.                 *)
GetChats(p, u) ==
  /\ Free(p)
  /\ IF CacheHit(u)
       THEN /\ EnterAndLeave(p, [Return("getChats", u, 0, "cached", "none", "none", 0, 0)
                                   EXCEPT !.data = chatCache[u].data])
            /\ UNCHANGED <<sessions, disk, drvVars>>
       ELSE GetClientForUser(p, u, "getChats")

(* getChats after `await clientData.clientReadyPromise`: a rejection is     *)
(* logged and rethrown; otherwise client.getChats() is called and awaited.  *)
ChatsAfterReady(p) ==
  /\ pc[p] = "wait_ready"
  /\ op[p] = "getChats"
  /\ cd[p] \in SessionIds
  /\ promise[cd[p]] \in {"resolved", "rejected"}
  /\ IF promise[cd[p]] = "resolved"
       THEN /\ nList' = nList + 1
            /\ pc' = [pc EXCEPT ![p] = "await_chats"]
            /\ UNCHANGED <<op, usr, cd, nSignout, nDestroy, signout, since, attempts, arg, req, chk, last, chatCache, clock>>
       ELSE Leave(p, Return(op[p], usr[p], cd[p], "error", "none", "none", 0, 0))
  /\ UNCHANGED <<sessions, disk, drvVars>>

(* The list getChats stores: the one its own driver call returned (named by *)
(* the call), stamped with the `now` read when getChats was called.         *)
Stored(p) == [data |-> p, timestamp |-> since[p], storedAt |-> clock]

\* The mutated projection: the name as the driver gives it, empty or not.
ProjectedAsNamed(c) == [id |-> c.id.serialized, name |-> c.name]

\* `{id: chat.id._serialized, name: chat.name || chat.id.user}`.
Projected(c) == [id |-> c.id.serialized, name |-> IF c.name # "" THEN c.name ELSE c.id.user]

\* chats.filter((chat) => chat.isGroup).
GroupChats(chats) == SelectSeq(chats, LAMBDA c : c.isGroup)

\* groupChats.map(...): the list getChats stores and returns.
ResultOf(chats) == [i \in DOMAIN GroupChats(chats) |-> Projected(GroupChats(chats)[i])]

\* The mutated listing: a failed listing empties the tenant's cache entry.
ChatsListedClearing(p, listings) ==
  /\ pc[p] = "await_chats"
  /\ \E o \in DriverOutcomes :
       IF o = "ok"
         THEN /\ chatCache' = [chatCache EXCEPT ![usr[p]] = Stored(p)]
              /\ \E chats \in listings :
                   LeaveLocals(p, [Return(op[p], usr[p], cd[p], "listed", "none", "none", 0, 0)
                                     EXCEPT !.data = p, !.listing = chats, !.result = ResultOf(chats)])
              /\ UNCHANGED <<nList, clock, chk>>
         ELSE /\ chatCache' = [chatCache EXCEPT ![usr[p]] = NoCache]
              /\ LeaveLocals(p, Return(op[p], usr[p], cd[p], "driverError", "none", "none", 0, 0))
              /\ UNCHANGED <<nList, clock, chk>>
  /\ UNCHANGED <<sessions, disk, drvVars>>

(* client.getChats() settled with one of the given listings: the groups     *)
(* are projected, stored in chatCache and returned; a throw is logged and   *)
(* rethrown.                                                                *)
ChatsListedFrom(p, listings) ==
  /\ pc[p] = "await_chats"
  /\ \E o \in DriverOutcomes :
       IF o = "ok"
         THEN /\ chatCache' = [chatCache EXCEPT ![usr[p]] = Stored(p)]
              /\ \E chats \in listings :
                   LeaveLocals(p, [Return(op[p], usr[p], cd[p], "listed", "none", "none", 0, 0)
                                     EXCEPT !.data = p, !.listing = chats, !.result = ResultOf(chats)])
              /\ UNCHANGED <<nList, clock, chk>>
         ELSE Leave(p, Return(op[p], usr[p], cd[p], "driverError", "none", "none", 0, 0))
  /\ UNCHANGED <<sessions, disk, drvVars>>

\* The same where the content of the listing is left out: an account without chats.
ChatsListed(p) == ChatsListedFrom(p, {<<>>})

(* mentionEveryone after `await clientData.clientReadyPromise`: a rejection *)
(* is logged and rethrown; otherwise client.getChatById is awaited.         *)
MentionAfterReadyAnyway(p) ==
  /\ pc[p] = "wait_ready"
  /\ op[p] = "mentionEveryone"
  /\ cd[p] \in SessionIds
  /\ promise[cd[p]] \in {"resolved", "rejected"}
  /\ Goto(p, "await_chat")
  /\ UNCHANGED <<sessions, disk, drvVars>>
MentionAfterReady(p) ==
  /\ pc[p] = "wait_ready"
  /\ op[p] = "mentionEveryone"
  /\ cd[p] \in SessionIds
  /\ promise[cd[p]] \in {"resolved", "rejected"}
  /\ IF promise[cd[p]] = "resolved"
       THEN Goto(p, "await_chat")
       ELSE Leave(p, Return(op[p], usr[p], cd[p], "error", "none", "none", 0, 0))
  /\ UNCHANGED <<sessions, disk, drvVars>>

\* What the awaited client.getChatById(chatId) can give.
LookupOutcomes == {"group", "notGroup", "missing", "throw"}

\* A participant of a group chat, as the driver gives it: {id: {_serialized}}.
Participant(n) == [id |-> [serialized |-> n]]
\* The participants a group the driver finds can have.
ParticipantLists ==
  {<<Participant("111@c.us")>>, <<Participant("222@c.us"), Participant("111@c.us")>>}

\* The chat object of a lookup that ended with o, a group having the participants ps.
ChatFound(o, ps) ==
  [found |-> o \in {"group", "notGroup"}, isGroup |-> o = "group",
   participants |-> IF o = "group" THEN ps ELSE <<>>]

\* The mutated mention list: the first participant only.
MentionsOfFirst(ps) == IF ps = <<>> THEN <<>> ELSE <<ps[1].id.serialized>>

\* groupChat.participants.map((participant) => participant.id._serialized).
Mentions(ps) == [i \in DOMAIN ps |-> ps[i].id.serialized]

(* getChatById settled: a missing chat or one that is no group throws an    *)
(* Error; for a group client.sendMessage is called with the mentions and    *)
(* its promise returned, so that a failure of the driver's send (s) reaches *)
(* the caller with no further step of the service.                          *)
MentionLookedUp(p) ==
  /\ pc[p] = "await_chat"
  /\ \E o \in LookupOutcomes, ps \in ParticipantLists, s \in DriverOutcomes :
       Leave(p, [Return(op[p], usr[p], cd[p],
                        CASE o = "group" /\ s = "ok" -> "sent"
                          [] o \in {"group", "throw"} -> "driverError"
                          [] OTHER -> "chatError",
                        "none", "none", 0, 0)
                   EXCEPT !.chat = ChatFound(o, ps),
                          !.sent = IF o = "group" THEN Send(arg[p], Mentions(ps)) ELSE NoSend])
  /\ UNCHANGED <<sessions, disk, drvVars>>

\* No two calls are in flight: the call about to be made races at most one other.
AtMostOneInFlight ==
  ~\E q, r \in Calls : q # r /\ pc[q] \notin {"idle", "done"} /\ pc[r] \notin {"idle", "done"}

(* getChats is called while at most one other call is in flight: the       *)
(* requests of this specification race in pairs.                           *)
GetChatsPaired(p, u) ==
  /\ AtMostOneInFlight
  /\ GetChats(p, u)

\* sendMessage or mentionEveryone (o) is called while at most one other call is in flight.
CallPaired(p, u, o) ==
  /\ AtMostOneInFlight
  /\ GetClientForUser(p, u, o)

NextOps ==
  \/ \E p \in Calls, u \in Solo : GetChatsPaired(p, u)
  \/ \E p \in Calls, u \in Solo : CallPaired(p, u, "sendMessage")
  \/ \E p \in Calls, u \in Solo : CallPaired(p, u, "mentionEveryone")
  \/ \E p \in Calls : GetClientSet(p)
  \/ \E p \in Calls : SendAfterReady(p)
  \/ \E p \in Calls : ChatsAfterReady(p)
  \/ \E p \in Calls : ChatsListed(p)
  \/ \E p \in Calls : MentionAfterReady(p)
  \/ \E p \in Calls : MentionLookedUp(p)
  \/ \E d \in SessionIds : EvReady(d)
  \/ \E d \in SessionIds : EvAuthFailure(d)
  \/ \E d \in SessionIds : EvDisconnected(d)

SpecOps == Init /\ [][NextOps]_vars

\* A minute passes.
Tick ==
  /\ clock < MaxTime
  /\ clock' = clock + 1
  /\ UNCHANGED <<sessions, disk, drvVars, pc, op, usr, cd, nSignout, nDestroy, signout,
                 since, attempts, arg, req, chk, last, chatCache, nList>>

NextCache ==
  \/ \E p \in Calls, u \in Solo : GetChatsPaired(p, u)
  \/ \E p \in Calls : GetClientSet(p)
  \/ \E p \in Calls : ChatsAfterReady(p)
  \/ \E p \in Calls : ChatsListed(p)
  \/ \E d \in SessionIds : EvReady(d)
  \/ \E d \in SessionIds : EvAuthFailure(d)
  \/ Tick

SpecCache == Init /\ [][NextCache]_vars

----------------------------------------------------------------------------
(* getQRCode and getConnectionStatus of the second definition of            *)
(* whatsapp.service.ts (lines 419-437, 475-489), and the service called for *)
(* two tenants.                                                             *)

\* The number of 1-second waits after which getQRCode gives up (`attempts < 10`).
MaxPollAttempts == 10

(* getQRCode evaluates its loop condition, first when getClientForUser has  *)
(* returned and then after every 1-second wait: while the client is not     *)
(* authenticated, no challenge is stored and attempts remain it waits       *)
(* again; otherwise it returns the challenge when the client is not         *)
(* authenticated and one is stored, and '' when not.                        *)
QrPoll(p) ==
  /\ pc[p] = "qr_poll"
  /\ cd[p] \in SessionIds
  /\ IF ~info[cd[p]] /\ qrCode[cd[p]] = 0 /\ attempts[p] < MaxPollAttempts
       THEN /\ attempts' = [attempts EXCEPT ![p] = @ + 1]
            /\ UNCHANGED <<pc, op, usr, cd, nSignout, nDestroy, signout, since, arg, req, chk, last, cacheVars>>
       ELSE Leave(p, [Return(op[p], usr[p], cd[p],
                             IF ~info[cd[p]] /\ qrCode[cd[p]] # 0 THEN "qr" ELSE "empty",
                             "none", "none", 0, 0)
                        EXCEPT !.data = IF ~info[cd[p]] THEN qrCode[cd[p]] ELSE 0])
  /\ UNCHANGED <<sessions, disk, drvVars>>

\* The methods of the service that go through getClientForUser.
SessionMethods == {"sendMessage", "mentionEveryone", "getQRCode", "getConnectionStatus"}

(* A call for tenant u is made while no call for u and at most one call     *)
(* for the other tenant is in flight: the requests of this specification    *)
(* race across tenants, in pairs.                                           *)
RacesOtherTenant(u) ==
  /\ AtMostOneInFlight
  /\ ~\E q \in Calls : pc[q] \notin {"idle", "done"} /\ usr[q] = u

\* getChats is called for tenant u.
CallGetChats(p, u) ==
  /\ RacesOtherTenant(u)
  /\ GetChats(p, u)

\* A method of the service is called for tenant u.
CallMethod(p, u) ==
  /\ RacesOtherTenant(u)
  /\ \E o \in SessionMethods : GetClientForUser(p, u, o)

\* logout is called for tenant u.
CallLogout(p, u) ==
  /\ RacesOtherTenant(u)
  /\ (LogoutAbsent(p, u) \/ LogoutStart(p, u))

NextTenants ==
  \/ \E p \in Calls, u \in Tenants : CallGetChats(p, u)
  \/ \E p \in Calls, u \in Tenants : CallMethod(p, u)
  \/ \E p \in Calls, u \in Tenants : CallLogout(p, u)
  \/ \E p \in Calls : GetClientSet(p)
  \/ \E p \in Calls : SendAfterReady(p)
  \/ \E p \in Calls : ChatsAfterReady(p)
  \/ \E p \in Calls : ChatsListed(p)
  \/ \E p \in Calls : MentionAfterReady(p)
  \/ \E p \in Calls : MentionLookedUp(p)
  \/ \E p \in Calls : QrPoll(p)
  \/ \E p \in Calls : StatusAfterClient(p)
  \/ \E p \in Calls : LogoutSignoutSettles(p)
  \/ \E p \in Calls : LogoutDestroySettles(p)
  \/ \E d \in SessionIds : EvReady(d)

SpecTenants == Init /\ [][NextTenants]_vars

----------------------------------------------------------------------------
(* sendMessage and mentionEveryone of the second definition of              *)
(* whatsapp.service.ts (lines 381-416) with their chatId and message.       *)

ChatIds == {"g1", "c1"}
Texts == {"hello", "hi"}

\* sendMessage(userId, chatId, message) is called.
SendMessage(p, u) ==
  /\ AtMostOneInFlight
  /\ \E c \in ChatIds, t \in Texts :
       GetClientForUserWith(p, u, "sendMessage", [chatId |-> c, text |-> t])

\* mentionEveryone(userId, chatId, message) is called.
MentionEveryone(p, u) ==
  /\ AtMostOneInFlight
  /\ \E c \in ChatIds, t \in Texts :
       GetClientForUserWith(p, u, "mentionEveryone", [chatId |-> c, text |-> t])

NextSend ==
  \/ \E p \in Calls, u \in Solo : SendMessage(p, u)
  \/ \E p \in Calls, u \in Solo : MentionEveryone(p, u)
  \/ \E p \in Calls : GetClientSet(p)
  \/ \E p \in Calls : SendAfterReady(p)
  \/ \E p \in Calls : MentionAfterReady(p)
  \/ \E p \in Calls : MentionLookedUp(p)
  \/ \E d \in SessionIds : EvReady(d)
  \/ \E d \in SessionIds : EvAuthFailure(d)

SpecSend == Init /\ [][NextSend]_vars

----------------------------------------------------------------------------
(* getChats of the second definition of whatsapp.service.ts (lines 355-379) *)
(* with the content of the driver's listing.                                *)

\* Number of chats in a listing.
MaxChats == 2

\* chat.id of the chats of an account: {_serialized, user}.
ChatIdObjects == {[serialized |-> "111@g.us", user |-> "111"], [serialized |-> "222@c.us", user |-> "222"]}
\* The chats the driver can list: a group or not, with a name or an empty one.
ChatObjects == [id : ChatIdObjects, name : {"", "Team"}, isGroup : BOOLEAN]
\* The listings client.getChats() can resolve to.
Listings == UNION {[1..n -> ChatObjects] : n \in 0..MaxChats}

NextListing ==
  \/ \E p \in Calls, u \in Solo : GetChatsPaired(p, u)
  \/ \E p \in Calls : GetClientSet(p)
  \/ \E p \in Calls : ChatsAfterReady(p)
  \/ \E p \in Calls : ChatsListedFrom(p, Listings)
  \/ \E d \in SessionIds : EvReady(d)

SpecListing == Init /\ [][NextListing]_vars

----------------------------------------------------------------------------
(* The two controllers of src/src/whats/whats.controller.ts in front of the *)
(* service: WhatsController (lines 18-85), every route behind JwtAuthGuard  *)
(* and SubscriptionGuard, and WhatsAppController (lines 93-139), whose      *)
(* routes are behind JwtAuthGuard alone, the 'qr' route behind no guard.    *)
(* Requests are taken one at a time.                                        *)

Controllers == {"WhatsController", "WhatsAppController"}

\* The routes of a controller.
Routes(c) ==
  IF c = "WhatsController"
    THEN {"qrcode", "chats", "send", "mention-all", "status", "logout"}
    ELSE {"mention-all", "chats", "qr", "send"}

\* The method of the service a route's handler calls.
Method(r) ==
  CASE r \in {"qrcode", "qr"} -> "getQRCode"
    [] r = "chats" -> "getChats"
    [] r = "send" -> "sendMessage"
    [] r = "mention-all" -> "mentionEveryone"
    [] r = "status" -> "getConnectionStatus"
    [] r = "logout" -> "logout"

\* @UseGuards(JwtAuthGuard ...) stands on the route.
JwtGuarded(c, r) == ~(c = "WhatsAppController" /\ r = "qr")
\* @UseGuards(..., SubscriptionGuard) stands on the route.
SubscriptionGuarded(c, r) == c = "WhatsController"

\* What a request carries: a bearer token that names a user, or none.
Tokens == Solo \cup {"none"}

(* JwtAuthGuard: a request without a valid token is refused; otherwise      *)
(* req.user is the token's user.  On a route without the guard req.user     *)
(* stays undefined.                                                         *)
JwtUser(c, r, t) == IF JwtGuarded(c, r) THEN t ELSE "none"

\* The request of call p is refused with an UnauthorizedException: no handler runs.
Refuse(p, rq) ==
  /\ req' = [req EXCEPT ![p] = [rq EXCEPT !.st = "rejected"]]
  /\ pc' = [pc EXCEPT ![p] = "done"]
  /\ last' = Return("none", rq.user, 0, "unauthorized", "none", "none", 0, 0)
  /\ UNCHANGED <<sessions, disk, drvVars, op, usr, cd, nSignout, nDestroy, signout, since,
                 attempts, arg, chk, cacheVars>>

(* A request for route r of controller c arrives with token t and passes    *)
(* through JwtAuthGuard; SubscriptionGuard.canActivate then refuses a       *)
(* request without req.user.userId and awaits isUserSubscriptionActive.     *)
Arrives(p, c, r, t) ==
  /\ Free(p)
  /\ req[p].st = "none"
  /\ LET rq == [ctl |-> c, route |-> r, user |-> JwtUser(c, r, t), sub |-> "unasked", st |-> "none"]
     IN IF (JwtGuarded(c, r) /\ t = "none") \/ (SubscriptionGuarded(c, r) /\ rq.user = "none")
          THEN Refuse(p, rq)
          ELSE /\ req' = [req EXCEPT ![p] = [rq EXCEPT !.st = IF SubscriptionGuarded(c, r)
                                                              THEN "guard" ELSE "admitted"]]
               /\ UNCHANGED <<sessions, disk, drvVars, pc, op, usr, cd, nSignout, nDestroy,
                              signout, since, attempts, arg, chk, last, cacheVars>>

(* isUserSubscriptionActive settled: false refuses the request, true lets  *)
(* it through to its handler.                                               *)
SubscriptionChecked(p) ==
  /\ req[p].st = "guard"
  /\ \E active \in BOOLEAN :
       IF active
         THEN /\ req' = [req EXCEPT ![p] = [@ EXCEPT !.sub = "active", !.st = "admitted"]]
              /\ UNCHANGED <<sessions, disk, drvVars, pc, op, usr, cd, nSignout, nDestroy,
                             signout, since, attempts, arg, chk, last, cacheVars>>
         ELSE Refuse(p, [req[p] EXCEPT !.sub = "inactive"])

(* The userId a handler passes on: req.user.userId in WhatsController,      *)
(* req.user?.userId.toString() in WhatsAppController, with `|| 'default'`   *)
(* in its 'qr' route.                                                       *)
UserIdOf(rq) ==
  IF rq.ctl = "WhatsAppController" /\ rq.route = "qr" /\ rq.user = "none" THEN "default" ELSE rq.user

(* The handler of an admitted request runs, once the calls made before it   *)
(* have returned: it calls the service with the userId.                     *)
Handler(p) ==
  /\ req[p].st = "admitted"
  /\ ~\E q \in Calls : pc[q] \notin {"idle", "done"}
  /\ LET u == UserIdOf(req[p])
         m == Method(req[p].route)
     IN CASE m = "getChats" -> GetChats(p, u)
          [] m = "logout" -> (LogoutAbsent(p, u) \/ LogoutStart(p, u))
          [] OTHER -> GetClientForUser(p, u, m)

NextController ==
  \/ \E p \in Calls, c \in Controllers : \E r \in Routes(c), t \in Tokens : Arrives(p, c, r, t)
  \/ \E p \in Calls : SubscriptionChecked(p)
  \/ \E p \in Calls : Handler(p)
  \/ \E p \in Calls : GetClientSet(p)
  \/ \E p \in Calls : SendAfterReady(p)
  \/ \E p \in Calls : ChatsAfterReady(p)
  \/ \E p \in Calls : ChatsListed(p)
  \/ \E p \in Calls : MentionAfterReady(p)
  \/ \E p \in Calls : MentionLookedUp(p)
  \/ \E p \in Calls : QrPoll(p)
  \/ \E p \in Calls : StatusAfterClient(p)
  \/ \E p \in Calls : LogoutSignoutSettles(p)
  \/ \E p \in Calls : LogoutDestroySettles(p)
  \/ \E d \in SessionIds : EvReady(d)

SpecController == Init /\ [][NextController]_vars

----------------------------------------------------------------------------
(* checkAllSessions of src/unnamed/part_003: for every entry of             *)
(* this.sessions in turn, the driver is asked for its state and             *)
(* initialize() is called on it when the state is falsy.  The specification *)
(* has one tenant, so the loop has one key to pass; a key deleted and set   *)
(* again while the loop is suspended is a new entry of the Map, which the   *)
(* iterator still has to pass.                                              *)

(* What `await clientData.client.getState()` can give the loop: a           *)
(* rejection, 'CONNECTED' for a driver that authenticated, another          *)
(* connection state, or null.                                               *)
CheckOutcomes(d) == (GetStateOutcomes(d) \ {"other"}) \cup {"OPENING", "null"}

\* The entries the loop's iterator has not passed.
Remaining(passed) == {u \in Solo : sessions[u] # 0 /\ u \notin passed}

(* checkAllSessions up to its first await: with no entry the loop body      *)
(* never runs and the call returns; otherwise the first entry is taken and  *)
(* its getState() awaited.                                                  *)
CheckAllSessions(p) ==
  /\ Free(p)
  /\ IF Remaining({}) = {}
       THEN EnterAndLeave(p, Return("checkAllSessions", "none", 0, "ok", "none", "none", 0, 0))
       ELSE \E u \in Remaining({}) :
              /\ op' = [op EXCEPT ![p] = "checkAllSessions"]
              /\ usr' = [usr EXCEPT ![p] = u]
              /\ cd' = [cd EXCEPT ![p] = sessions[u]]
              /\ pc' = [pc EXCEPT ![p] = "ck_state"]
              /\ chk' = [chk EXCEPT ![p] = [NoIter EXCEPT !.passed = {u}]]
              /\ UNCHANGED <<nSignout, nDestroy, signout, since, attempts, arg, req, last, cacheVars>>
  /\ UNCHANGED <<sessions, disk, drvVars>>

(* getState() settled with r.  A falsy state calls client.initialize() on   *)
(* the entry's driver, which starts its initialization again; a rejection   *)
(* is caught and logged.  The loop then takes the next entry, or the call   *)
(* returns.                                                                 *)
CheckStateSettles(p) ==
  /\ pc[p] = "ck_state"
  /\ \E r \in CheckOutcomes(cd[p]) :
       LET d == cd[p]
           re == IF r = "null" THEN chk[p].reinit \cup {d} ELSE chk[p].reinit
           rest == Remaining(chk[p].passed)
       IN /\ drv' = IF r = "null" THEN [drv EXCEPT ![d] = "initializing"] ELSE drv
          /\ IF rest = {}
               THEN /\ pc' = [pc EXCEPT ![p] = "done"]
                    /\ op' = [op EXCEPT ![p] = "none"]
                    /\ usr' = [usr EXCEPT ![p] = "none"]
                    /\ cd' = [cd EXCEPT ![p] = 0]
                    /\ chk' = [chk EXCEPT ![p] = [passed |-> {}, reinit |-> re, state |-> r]]
                    /\ last' = Return("checkAllSessions", usr[p], d, "ok", "none", "none", 0, 0)
               ELSE /\ \E u \in rest :
                         /\ usr' = [usr EXCEPT ![p] = u]
                         /\ cd' = [cd EXCEPT ![p] = sessions[u]]
                         /\ chk' = [chk EXCEPT ![p] = [passed |-> chk[p].passed \cup {u},
                                                       reinit |-> re, state |-> r]]
                    /\ UNCHANGED <<pc, op, last>>
  /\ UNCHANGED <<sessions, disk, owner, info, promise, qrCode, pendingQr, qrVars,
                 nSignout, nDestroy, signout, since, attempts, arg, req, cacheVars>>

(* The end of logout (LogoutDestroySettlesHl) seen by a suspended loop:     *)
(* this.sessions.delete(userId) takes the key out of the Map, so an entry   *)
(* set for it later lies ahead of every iterator.                           *)
LogoutDestroySettlesCk(p) ==
  /\ pc[p] = "lo_destroy"
  /\ \E o \in DestroyOutcomes, r \in RemoveOutcomes :
       /\ drv' = Disposed(cd[p], o)
       /\ sessions' = Evicted(usr[p], o)
       /\ disk' = Removed(usr[p], r)
       /\ IF op[p] = "logout"
            THEN /\ LeaveLocals(p, Return("logout", usr[p], cd[p], "ok", signout[p], o,
                                          nSignout[p], nDestroy[p]))
                 /\ UNCHANGED cacheVars
            ELSE /\ pc' = [pc EXCEPT ![p] = "gs_create"]
                 /\ UNCHANGED <<op, usr, cd, nSignout, nDestroy, signout, last, cacheVars,
                                since, attempts, arg, req>>
  /\ chk' = [q \in Calls |-> [chk[q] EXCEPT !.passed = @ \ {usr[p]}]]
  /\ UNCHANGED <<owner, info, promise, qrCode, pendingQr, qrVars>>

NextCheck ==
  \/ \E p \in Calls, u \in Solo : GetClientForUserHl(p, u, "getClientForUser")
  \/ \E p \in Calls : GetStateSettles(p)
  \/ \E p \in Calls : GetClientCreateHl(p)
  \/ \E p \in Calls : GetClientSet(p)
  \/ \E d \in SessionIds : EvReadyHard(d)
  \/ \E d \in SessionIds : EvDisconnectedHl(d)
  \/ \E p \in Calls, u \in Solo : LogoutAbsent(p, u)
  \/ \E p \in Calls, u \in Solo : LogoutStartHl(p, u)
  \/ \E p \in Calls : LogoutSignoutSettlesHl(p)
  \/ \E p \in Calls : LogoutDestroySettlesCk(p)
  \/ \E p \in Calls : CheckAllSessions(p)
  \/ \E p \in Calls : CheckStateSettles(p)

SpecCheck == Init /\ [][NextCheck]_vars

----------------------------------------------------------------------------
(* getQRCode of the second definition of src/unnamed/part_002 (lines        *)
(* 423-432): client, clientReadyPromise and qrCode are destructured from    *)
(* the session when getClientForUser has returned, and the polling loop     *)
(* tests those locals.                                                      *)

(* getQRCode is called: an entry is returned as it is, and the call resumes *)
(* from `await this.getClientForUser(userId)` with it; otherwise the        *)
(* session is constructed first.                                            *)
GetQRCodePh(p, u) ==
  /\ \A q \in Calls : pc[q] # "gc_set"
  /\ GetClientForUserPh(p, u, "getQRCode")

(* getChats of the same definition (lines 382-401) up to its first await:   *)
(* a cache hit returns cached.data; otherwise getClientForUser is awaited.  *)
GetChatsPh(p, u) ==
  /\ Free(p)
  /\ IF CacheHit(u)
       THEN /\ EnterAndLeave(p, [Return("getChats", u, 0, "cached", "none", "none", 0, 0)
                                   EXCEPT !.data = chatCache[u].data])
            /\ UNCHANGED <<sessions, disk, drvVars>>
       ELSE GetClientForUserPh(p, u, "getChats")

(* getChats after `await clientReadyPromise`.  Destructured from the empty  *)
(* object, client is undefined and client.getChats() throws a TypeError;    *)
(* on a session it goes on as in whatsapp.service.ts.                       *)
ChatsAfterReadyPh(p) ==
  /\ pc[p] = "wait_ready"
  /\ op[p] = "getChats"
  /\ IF cd[p] = -1
       THEN /\ Leave(p, Return(op[p], usr[p], cd[p], "error", "none", "none", 0, 0))
            /\ UNCHANGED <<sessions, disk, drvVars>>
       ELSE ChatsAfterReady(p)

(* The loop condition `!client.info && !qrCode && attempts++ < 10` is       *)
(* evaluated, first with the destructured qrCode and, after a 1-second      *)
(* wait, with the same local, which was falsy when the loop was entered.    *)
(* Then `client.info ? '' : qrCode || ''` is returned.  On the empty object *)
(* client is undefined and reading client.info throws a TypeError.          *)
QrPollPh(p) ==
  /\ pc[p] = "qr_poll"
  /\ IF cd[p] \notin SessionIds
       THEN Leave(p, Return(op[p], usr[p], cd[p], "error", "none", "none", 0, 0))
       ELSE LET local == IF attempts[p] = 0 THEN qrCode[cd[p]] ELSE 0
            IN IF ~info[cd[p]] /\ local = 0 /\ attempts[p] < MaxPollAttempts
                 THEN /\ attempts' = [attempts EXCEPT ![p] = @ + 1]
                      /\ UNCHANGED <<pc, op, usr, cd, nSignout, nDestroy, signout, since, arg,
                                     req, chk, last, cacheVars>>
                 ELSE Leave(p, [Return(op[p], usr[p], cd[p],
                                       IF ~info[cd[p]] /\ local # 0 THEN "qr" ELSE "empty",
                                       "none", "none", 0, 0)
                                  EXCEPT !.data = IF ~info[cd[p]] THEN local ELSE 0])
  /\ UNCHANGED <<sessions, disk, drvVars>>

NextPollPh ==
  \/ \E p \in Calls, u \in Solo : GetQRCodePh(p, u)
  \/ \E p \in Calls, u \in Solo : GetChatsPh(p, u)
  \/ \E p \in Calls : GetClientRejectsPh(p)
  \/ \E p \in Calls : GetClientSet(p)
  \/ \E p \in Calls : ChatsAfterReadyPh(p)
  \/ \E p \in Calls : ChatsListed(p)
  \/ \E p \in Calls : QrPollPh(p)
  \/ \E d \in SessionIds : EvQr(d)
  \/ \E d \in SessionIds : QrRendered(d)
  \/ \E d \in SessionIds : QrExpiresPh(d)
  \/ \E d \in SessionIds : EvReadyQ(d)

SpecPollPh == Init /\ [][NextPollPh]_vars

----------------------------------------------------------------------------
(* getChats and logout of the second definition of whatsapp.service.ts,     *)
(* with the clock: the chat cache across a logout.                          *)

\* logout is called while no call is suspended.
LogoutQuiet(p, u) ==
  /\ \A q \in Calls : pc[q] \in {"idle", "done"}
  /\ (LogoutAbsent(p, u) \/ LogoutStart(p, u))

NextEvict ==
  \/ \E p \in Calls, u \in Solo : GetChatsPaired(p, u)
  \/ \E p \in Calls : GetClientSet(p)
  \/ \E p \in Calls : ChatsAfterReady(p)
  \/ \E p \in Calls : ChatsListed(p)
  \/ \E d \in SessionIds : EvReady(d)
  \/ \E p \in Calls, u \in Solo : LogoutQuiet(p, u)
  \/ \E p \in Calls : LogoutSignoutSettles(p)
  \/ \E p \in Calls : LogoutDestroySettles(p)
  \/ Tick

SpecEvict == Init /\ [][NextEvict]_vars

----------------------------------------------------------------------------
(* The other definitions of the service with all their methods.             *)

(* getQRCode of the first definition of whatsapp.service.ts (lines          *)
(* 156-162) and of src/unnamed/part_001 resumes after                       *)
(* `await this.getClientForUser(userId)`: {qr} when a challenge is stored,  *)
(* {ready: true} when none is.                                              *)
QrReadHard(p) ==
  /\ pc[p] = "qr_poll"
  /\ cd[p] \in SessionIds
  /\ Leave(p, [Return(op[p], usr[p], cd[p], IF qrCode[cd[p]] # 0 THEN "qr" ELSE "ready",
                      "none", "none", 0, 0)
                 EXCEPT !.data = qrCode[cd[p]]])
  /\ UNCHANGED <<sessions, disk, drvVars>>

(* mentionEveryone of the first definition (lines 143-151) after            *)
(* getChatById settled: a missing chat or one that is no group throws an    *)
(* Error; for a group sendTextWithMentions(chatId, message) is called, with *)
(* no list of mentions, and its promise returned.                           *)
MentionLookedUpHard(p) ==
  /\ pc[p] = "await_chat"
  /\ \E o \in LookupOutcomes, s \in DriverOutcomes :
       Leave(p, [Return(op[p], usr[p], cd[p],
                        CASE o = "group" /\ s = "ok" -> "sent"
                          [] o \in {"group", "throw"} -> "driverError"
                          [] OTHER -> "chatError",
                        "none", "none", 0, 0)
                   EXCEPT !.chat = ChatFound(o, <<>>),
                          !.sent = IF o = "group" THEN Send(arg[p], <<>>) ELSE NoSend])
  /\ UNCHANGED <<sessions, disk, drvVars>>

\* The methods of the first definition beside logout.
HardMethods == {"getClientForUser", "getChats", "sendMessage", "mentionEveryone", "getQRCode"}

(* Method o of the first definition is called once the calls made before   *)
(* it have returned: getChats tests its cache first, the others start with  *)
(* getClientForUser.                                                        *)
CallQuiet(p, u, o) ==
  /\ \A q \in Calls : pc[q] \in {"idle", "done"}
  /\ IF o = "getChats" THEN GetChats(p, u) ELSE GetClientForUser(p, u, o)

(* First definition of whatsapp.service.ts.  getChats, sendMessage and the  *)
(* wait of mentionEveryone read as in the second definition, without its    *)
(* logging catch blocks.  The calls of a run are made one after the other;  *)
(* driver events and the 'qr' renderings come at any time.                  *)
NextHard ==
  \/ \E p \in Calls, u \in Solo, o \in HardMethods : CallQuiet(p, u, o)
  \/ \E p \in Calls : GetClientSet(p)
  \/ \E p \in Calls : ChatsAfterReady(p)
  \/ \E p \in Calls : ChatsListed(p)
  \/ \E p \in Calls : SendAfterReady(p)
  \/ \E p \in Calls : MentionAfterReady(p)
  \/ \E p \in Calls : MentionLookedUpHard(p)
  \/ \E p \in Calls : QrReadHard(p)
  \/ \E d \in SessionIds : EvQrHard(d)
  \/ \E d \in SessionIds : QrRenderedHard(d)
  \/ \E d \in SessionIds : EvReadyHard(d)
  \/ \E d \in SessionIds : EvAuthFailure(d)
  \/ \E p \in Calls, u \in Solo : LogoutQuiet(p, u)
  \/ \E p \in Calls : LogoutSignoutSettles(p)
  \/ \E p \in Calls : LogoutDestroySettlesHard(p)

SpecHard == Init /\ [][NextHard]_vars

(* Second definition of src/unnamed/part_002, with getChats. *)
NextPlaceholder ==
  \/ \E p \in Calls, u \in Solo : GetClientForUserPh(p, u, "getClientForUser")
  \/ \E p \in Calls, u \in Solo : GetClientForUserPh(p, u, "sendMessage")
  \/ \E p \in Calls, u \in Solo : GetChatsPh(p, u)
  \/ \E p \in Calls : GetClientRejectsPh(p)
  \/ \E p \in Calls : GetClientSet(p)
  \/ \E p \in Calls : SendAfterReadyPh(p)
  \/ \E p \in Calls : ChatsAfterReadyPh(p)
  \/ \E p \in Calls : ChatsListed(p)
  \/ \E d \in SessionIds : EvReady(d)
  \/ \E d \in SessionIds : EvAuthFailure(d)
  \/ \E d \in SessionIds : EvDisconnected(d)
  \/ \E p \in Calls, u \in Solo : LogoutAbsent(p, u)
  \/ \E p \in Calls, u \in Solo : LogoutStartPh(p, u)
  \/ \E p \in Calls : LogoutSignoutSettles(p)
  \/ \E p \in Calls : LogoutDestroySettlesPh(p)

SpecPlaceholder == Init /\ [][NextPlaceholder]_vars

(* getChats of src/unnamed/part_001 (lines 90-121) up to its first await:   *)
(* a cache hit returns cache.data; otherwise getClientForUser is awaited.   *)
GetChatsVn(p, u) ==
  /\ Free(p)
  /\ IF CacheHit(u)
       THEN /\ EnterAndLeave(p, [Return("getChats", u, 0, "cached", "none", "none", 0, 0)
                                   EXCEPT !.data = chatCache[u].data])
            /\ UNCHANGED <<sessions, disk, drvVars>>
       ELSE GetClientForUserVn(p, u, "getChats")

(* src/unnamed/part_001 with all its methods.  After getClientForUser the   *)
(* methods read as in the first definition of whatsapp.service.ts, with     *)
(* client.getAllChats() for the listing and client.sendText for the send.   *)
NextVenom ==
  \/ \E p \in Calls, u \in Solo, o \in HardMethods \ {"getChats"} : GetClientForUserVn(p, u, o)
  \/ \E p \in Calls, u \in Solo : GetChatsVn(p, u)
  \/ \E p \in Calls : GetClientSet(p)
  \/ \E p \in Calls : ChatsAfterReady(p)
  \/ \E p \in Calls : ChatsListed(p)
  \/ \E p \in Calls : SendAfterReady(p)
  \/ \E p \in Calls : MentionAfterReady(p)
  \/ \E p \in Calls : MentionLookedUpHard(p)
  \/ \E p \in Calls : QrReadHard(p)
  \/ \E d \in SessionIds : EvQrVn(d)
  \/ \E d \in SessionIds : EvCreatedVn(d)
  \/ \E d \in SessionIds : EvCreateFailedVn(d)
  \/ \E p \in Calls, u \in Solo : LogoutAbsent(p, u)
  \/ \E p \in Calls, u \in Solo : LogoutStartVn(p, u)
  \/ \E p \in Calls : LogoutCloseSettlesVn(p)

SpecVenom == Init /\ [][NextVenom]_vars

----------------------------------------------------------------------------
(* createClient of the second definition of whatsapp.service.ts (lines     *)
(* 255-353) taken one statement at a time.  Driver events are allowed       *)
(* between any two statements, which is more than the single-threaded       *)
(* runtime allows: here only the order of the statements keeps an event of  *)
(* the driver from coming before its handler.                               *)

\* The mutated order: client.initialize() is called before the handlers are registered.
CreateClientOrderInitializingFirst == <<"new Client", "client.initialize", "client.on">>

(* The statements of createClient in the order of the source: `new          *)
(* Client(...)`, the clientData literal whose clientReadyPromise executor   *)
(* registers the 'qr', 'ready', 'auth_failure' and 'disconnected' handlers, *)
(* and `client.initialize()`.                                               *)
CreateClientOrder == <<"new Client", "client.on", "client.initialize">>

\* Where a call that has executed statement s goes on: the next statement, or the return of createClient.
StmtAfter(s) ==
  LET i == CHOOSE j \in 1..Len(CreateClientOrder) : CreateClientOrder[j] = s
  IN IF i = Len(CreateClientOrder) THEN "gc_set" ELSE CreateClientOrder[i + 1]

(* getClientForUser up to `new Client(...)`: an entry is returned as it is; *)
(* otherwise createClient constructs the driver, which has no handler and   *)
(* has not been started.                                                    *)
GetClientForUserStmts(p, u) ==
  /\ Free(p)
  /\ IF sessions[u] # 0
       THEN /\ EnterAndLeave(p, Return("getClientForUser", u, sessions[u], "ok", "none", "none", 0, 0))
            /\ UNCHANGED <<sessions, disk, drvVars>>
       ELSE /\ HasFreshSession
            /\ drv' = [drv EXCEPT ![FreshSession] = "constructed"]
            /\ owner' = [owner EXCEPT ![FreshSession] = u]
            /\ info' = [info EXCEPT ![FreshSession] = FALSE]
            /\ promise' = [promise EXCEPT ![FreshSession] = "none"]
            /\ qrCode' = [qrCode EXCEPT ![FreshSession] = 0]
            /\ pendingQr' = [pendingQr EXCEPT ![FreshSession] = 0]
            /\ firstQrShown' = [firstQrShown EXCEPT ![FreshSession] = FALSE]
            /\ qrTimer' = [qrTimer EXCEPT ![FreshSession] = "none"]
            /\ Enter(p, "getClientForUser", u, FreshSession, StmtAfter("new Client"), 0, 0)
            /\ UNCHANGED <<sessions, disk, nQr>>

(* The clientData literal: clientReadyPromise is created pending and its    *)
(* executor registers the four handlers on the driver.                      *)
RegisterHandlers(p) ==
  /\ pc[p] = "client.on"
  /\ promise' = [promise EXCEPT ![cd[p]] = "pending"]
  /\ Goto(p, StmtAfter("client.on"))
  /\ UNCHANGED <<sessions, disk, drv, owner, info, qrCode, pendingQr, qrVars>>

(* `client.initialize()` inside its try/catch: the driver is started and    *)
(* the call is not awaited; an error thrown by the call itself is logged    *)
(* and thrown again, which rejects the promise createClient returned.       *)
Initialize(p) ==
  /\ pc[p] = "client.initialize"
  /\ \E o \in DriverOutcomes :
       /\ drv' = [drv EXCEPT ![cd[p]] = IF o = "ok" THEN "initializing" ELSE @]
       /\ Goto(p, IF o = "ok" THEN StmtAfter("client.initialize") ELSE "gc_throw")
  /\ UNCHANGED <<sessions, disk, owner, info, promise, qrCode, pendingQr, qrVars>>

\* getClientForUser resumes from `await this.createClient(userId)` with the rejection and throws it.
CreateClientRejects(p) ==
  /\ pc[p] = "gc_throw"
  /\ Leave(p, Return(op[p], usr[p], 0, "error", "none", "none", 0, 0))
  /\ UNCHANGED <<sessions, disk, drvVars>>

(* getClientForUser is called once the calls made before it have returned: *)
(* the requests of this specification do not race a construction.          *)
GetClientForUserInTurn(p, u) ==
  /\ \A q \in Calls : pc[q] \in {"idle", "done"}
  /\ GetClientForUserStmts(p, u)

NextCreate ==
  \/ \E p \in Calls, u \in Solo : GetClientForUserInTurn(p, u)
  \/ \E p \in Calls : RegisterHandlers(p)
  \/ \E p \in Calls : Initialize(p)
  \/ \E p \in Calls : CreateClientRejects(p)
  \/ \E p \in Calls : GetClientSet(p)
  \/ \E d \in SessionIds : EvQr(d)
  \/ \E d \in SessionIds : QrRendered(d)
  \/ \E d \in SessionIds : QrExpires(d)
  \/ \E d \in SessionIds : EvReadyQ(d)
  \/ \E d \in SessionIds : EvAuthFailureQ(d)
  \/ \E d \in SessionIds : EvDisconnectedQ(d)

SpecCreate == Init /\ [][NextCreate]_vars

(* A call that is not waiting on the driver goes on: the statements of      *)
(* createClient run to its return and getClientForUser resumes from its     *)
(* await.  Nothing obliges the driver to emit an event, nor a suspended     *)
(* 'qr' handler or an armed timer to go on.                                 *)
FairSpecCreate ==
  /\ SpecCreate
  /\ \A p \in Calls : /\ WF_vars(RegisterHandlers(p))
                      /\ WF_vars(Initialize(p))
                      /\ WF_vars(CreateClientRejects(p))
                      /\ WF_vars(GetClientSet(p))

----------------------------------------------------------------------------
(* Properties *)

\* A logout call is tearing session d down: it awaits the sign-out or the disposal.
TearingDown(d) == \E q \in Calls : op[q] = "logout" /\ pc[q] \in {"lo_signout", "lo_destroy"} /\ cd[q] = d

\* Call p is made in this step.
Made(p) == pc[p] = "idle" /\ pc'[p] # "idle"
\* The method of the call made in this step, and the session it holds after the step.
MadeOp(p) == IF pc'[p] = "done" THEN last'.op ELSE op'[p]
MadeCd(p) == IF pc'[p] = "done" THEN last'.cd ELSE cd'[p]
MadeUsr(p) == IF pc'[p] = "done" THEN last'.usr ELSE usr'[p]

\* Call p, a logout that found an entry, returns in this step.
LogoutReturns(p) == op[p] = "logout" /\ pc[p] \in {"lo_signout", "lo_destroy"} /\ pc'[p] = "done"

(* C1: getClientForUser calls that are in flight together for one tenant   *)
(* whose entry is absent share one construction: two calls suspended on    *)
(* createClient for the same tenant hold the same session object, so only  *)
(* one driver was constructed.                                             *)
C1_ConcurrentAcquireConstructsOnce ==
  \A p, q \in Calls :
    (pc[p] = "gc_set" /\ pc[q] = "gc_set" /\ usr[p] = usr[q]) => cd[p] = cd[q]

(* C2: a call that acquires the tenant's session while another call's     *)
(* construction for that tenant is in flight is handed the session under   *)
(* construction, with its driver handle and its clientReadyPromise.        *)
C2_SecondCallerSharesConstruction ==
  [][\A p, q \in Calls :
      (Made(p) /\ MadeOp(p) # "logout" /\ q # p /\ pc[q] = "gc_set" /\ usr[q] = MadeUsr(p)) =>
        MadeCd(p) = cd[q]]_vars

(* C3: a driver is constructed for a tenant only when nothing is          *)
(* registered for it or the registered session failed authentication: a    *)
(* registered session that is initializing or awaiting a scan is kept.     *)
C3_RegisteredSessionIsKept ==
  [][\A d \in SessionIds :
      (drv[d] = "absent" /\ drv'[d] # "absent") =>
        \/ sessions[owner'[d]] = 0
        \/ drv[sessions[owner'[d]]] = "authFailed"]_vars

(* C4: when a logout that found an entry returns, the sessions map has no  *)
(* entry for its tenant, whatever the sign-out race and destroy() did.     *)
C4_LogoutEvicts ==
  [][\A p \in Calls : LogoutReturns(p) => sessions'[usr[p]] = 0]_vars

\* A logout has just returned after its sign-out timed out and destroy() threw; the entry is gone.
C4_Witness ==
  /\ last.op = "logout" /\ last.cd \in SessionIds
  /\ last.signout = "timeout" /\ last.destroyRes = "throw"
  /\ sessions[last.usr] = 0

(* C5: a call that acquires the tenant's session is never handed a session *)
(* that a logout is tearing down at that moment.                           *)
C5_NoAcquireDuringTeardown ==
  [][\A p \in Calls :
      (Made(p) /\ MadeOp(p) # "logout" /\ MadeCd(p) \in SessionIds) => ~TearingDown(MadeCd(p))]_vars

(* C6: a logout made while the sessions map has no entry for the tenant    *)
(* returns normally in the same step, makes no sign-out or destroy() call, *)
(* and leaves the sessions map, the chat cache, the session directories    *)
(* and every session object and driver as they were.                       *)
C6_LogoutWithoutSessionIsNoOp ==
  [][\A p \in Calls :
      (Made(p) /\ MadeOp(p) = "logout" /\ sessions[MadeUsr(p)] = 0) =>
        /\ pc'[p] = "done" /\ last'.res = "ok" /\ last'.cd = 0
        /\ last'.nSignout = 0 /\ last'.nDestroy = 0
        /\ UNCHANGED <<sessions, chatCache, disk, drvVars>>]_vars

(* A logout has just found no entry while the tenant has a cached chat list *)
(* and its session directory exists.                                       *)
C6_Witness ==
  /\ last.op = "logout" /\ last.cd = 0 /\ last.res = "ok"
  /\ sessions[last.usr] = 0 /\ disk[last.usr]
  /\ chatCache[last.usr].data # 0

(* C7: a logout never raises to its caller: every logout that returned,   *)
(* returned normally.                                                      *)
C7_LogoutNeverRaises == last.op = "logout" => last.res = "ok"

(* C8: a logout whose sign-out ended by the timer made one sign-out call   *)
(* and one destroy() call and is past the sign-out; when it returns the    *)
(* tenant's entry is gone; and every logout that awaits the sign-out       *)
(* eventually returns.                                                     *)
C8_TimeoutAbandonsSignout ==
  /\ [](\A p \in Calls : signout[p] = "timeout" =>
          (nSignout[p] = 1 /\ nDestroy[p] = 1 /\ pc[p] = "lo_destroy"))
  /\ [](last.signout = "timeout" => (last.nSignout = 1 /\ last.nDestroy = 1))
  /\ [][\A p \in Calls : (LogoutReturns(p) /\ signout[p] = "timeout") => sessions'[usr[p]] = 0]_vars
  /\ \A p \in Calls : (pc[p] = "lo_signout") ~> (pc[p] = "done")

\* A logout of an authenticated session has just returned after its sign-out timed out.
C8_Witness ==
  /\ last.op = "logout" /\ last.signout = "timeout"
  /\ info[last.cd] /\ last.nDestroy = 1 /\ sessions[last.usr] = 0

(* C9: the remote sign-out is awaited only on a session that is            *)
(* authenticated at that moment.                                           *)
C9_SignoutOnlyWhenAuthenticated ==
  \A p \in Calls : pc[p] = "lo_signout" => info[cd[p]]

(* C10: after a logout of a registered session returned without a failed   *)
(* disposal, the driver created for that session is not running.           *)
C10_LogoutDisposesDriver ==
  (last.op = "logout" /\ last.cd \in SessionIds /\ last.destroyRes # "throw") =>
    drv[last.cd] \notin {"initializing", "ready"}

(* C11: a clientReadyPromise that has settled keeps its outcome through    *)
(* every later step, whatever event the driver emits.                      *)
C11_ReadyPromiseSettlesOnce ==
  [][\A d \in SessionIds :
      promise[d] \in {"resolved", "rejected"} => promise'[d] = promise[d]]_vars

\* An 'auth_failure' came after 'ready', and a waiter that came later still sent.
C11_Witness ==
  /\ last.res = "sent"
  /\ last.cd \in SessionIds
  /\ drv[last.cd] = "authFailed"
  /\ promise[last.cd] = "resolved"

(* C12: a getChats, sendMessage or mentionEveryone that resumes from its   *)
(* wait on a rejected clientReadyPromise fails with the rejection and has  *)
(* called no driver listing, lookup or send operation.                     *)
C12_AuthFailureReachesWaiters ==
  [][\A p \in Calls :
      (pc[p] = "wait_ready" /\ cd[p] \in SessionIds /\ promise[cd[p]] = "rejected"
         /\ pc'[p] # "wait_ready") =>
        (pc'[p] = "done" /\ last'.res = "error" /\ nList' = nList)]_vars

\* A mentionEveryone failed on a session whose authentication had failed.
C12_Witness ==
  /\ last.op = "mentionEveryone"
  /\ last.res = "error"
  /\ last.cd \in SessionIds
  /\ drv[last.cd] = "authFailed"

(* C13: a getClientForUser made after the registered session failed        *)
(* authentication is not handed the failed session.                        *)
C13_FailedSessionNotReturned ==
  [][\A p \in Calls :
      (Made(p) /\ MadeOp(p) # "logout" /\ MadeCd(p) \in SessionIds) =>
        drv[MadeCd(p)] # "authFailed"]_vars

(* C14: a call waiting on the clientReadyPromise of a session whose driver *)
(* has emitted no event eventually returns or fails, unless the driver     *)
(* emits an event after all.                                               *)
C14_WaitersEventuallyFail ==
  \A p \in Calls, d \in SessionIds :
    (pc[p] = "wait_ready" /\ cd[p] = d /\ drv[d] = "initializing" /\ nQr[d] = 0)
      ~> (pc[p] = "done" \/ drv[d] # "initializing" \/ nQr[d] > 0)

(* C15: the empty object is registered for a tenant only while a           *)
(* getClientForUser for that tenant is suspended on createClient, whether   *)
(* the construction goes on or its rejection is about to be delivered.      *)
C15_NoDeadPlaceholder ==
  \A u \in Users :
    sessions[u] = -1 => \E p \in Calls : pc[p] \in {"gc_set", "gc_throw"} /\ usr[p] = u

(* C16: a stored QR challenge changes only when its expiry timer fires or  *)
(* after the session's 'ready' event.                                      *)
C16_RenewalKeepsChallenge ==
  [][\A d \in SessionIds :
      (qrCode[d] # 0 /\ qrCode'[d] # qrCode[d]) =>
        \/ info[d]
        \/ qrTimer[d] = "armed" /\ qrTimer'[d] = "fired"]_vars

\* A renewal arrived while the first challenge was stored, and the first is still stored.
C16_Witness ==
  \E d \in SessionIds : nQr[d] = 2 /\ qrCode[d] = 1 /\ qrTimer[d] = "armed" /\ ~info[d]

(* C17: after the stored challenge expired, the next 'qr' event is         *)
(* captured: its rendering starts.                                         *)
C17_ExpiryReopensGate ==
  [][\A d \in SessionIds :
      (qrTimer[d] = "fired" /\ nQr'[d] = nQr[d] + 1) => pendingQr'[d] = nQr'[d]]_vars

(* C18: once the session's 'ready' event has fired, qrCode is null.        *)
C18_NoChallengeAfterReady ==
  \A d \in SessionIds : info[d] => qrCode[d] = 0

(* C19: a call that resumes from its wait on a session whose driver has    *)
(* disconnected calls no driver listing, lookup or send operation: it      *)
(* fails.                                                                  *)
C19_DisconnectIsDetected ==
  [][\A p \in Calls :
      (pc[p] = "wait_ready" /\ cd[p] \in SessionIds /\ drv[cd[p]] = "disconnected"
         /\ pc'[p] # "wait_ready") =>
        (pc'[p] = "done" /\ last'.res # "sent" /\ nList' = nList)]_vars

(* C20: a getChats made less than CACHE_TTL after the tenant's list was    *)
(* stored returns that list at once, with no driver call and no session    *)
(* looked up or created.                                                   *)
C20_FreshCacheIsServed ==
  [][\A p \in Calls, u \in Users :
      (Made(p) /\ MadeOp(p) = "getChats" /\ MadeUsr(p) = u /\ chatCache[u].data # 0
         /\ clock - chatCache[u].storedAt < CACHE_TTL) =>
        (pc'[p] = "done" /\ last'.res = "cached" /\ last'.data = chatCache[u].data
           /\ UNCHANGED <<nList, sessions, drv>>)]_vars

(* C21: a getChats that returns the cached list returns one stored less    *)
(* than CACHE_TTL ago and leaves the entry as it was; a getChats that      *)
(* misses and gets as far as the driver calls client.getChats() once, in   *)
(* the step that takes it past the readiness wait and in no other, and     *)
(* when it returns its list that list has replaced the tenant's entry.     *)
C21_ExpiredEntryNeverServed ==
  [][\A p \in Calls :
      /\ (Made(p) /\ MadeOp(p) = "getChats" /\ pc'[p] = "done" /\ last'.res = "cached") =>
           /\ chatCache[MadeUsr(p)].data # 0
           /\ clock - chatCache[MadeUsr(p)].storedAt < CACHE_TTL
           /\ last'.data = chatCache[MadeUsr(p)].data
           /\ UNCHANGED <<chatCache, nList>>
      /\ (Made(p) /\ MadeOp(p) = "getChats" /\ ~(pc'[p] = "done" /\ last'.res = "cached")) =>
           /\ chatCache[MadeUsr(p)].data = 0 \/ clock - chatCache[MadeUsr(p)].timestamp >= CACHE_TTL
           /\ pc'[p] # "done"
           /\ nList' = nList
      /\ (op[p] = "getChats" /\ pc[p] = "wait_ready" /\ pc'[p] = "await_chats") => nList' = nList + 1
      /\ (op[p] = "getChats" /\ pc[p] # pc'[p] /\ ~(pc[p] = "wait_ready" /\ pc'[p] = "await_chats")) =>
           nList' = nList
      /\ (op[p] = "getChats" /\ pc'[p] = "done" /\ last'.res = "listed") =>
           /\ pc[p] = "await_chats"
           /\ chatCache'[usr[p]].data = last'.data
           /\ chatCache'[usr[p]].storedAt = clock
           /\ last'.data \notin {0, chatCache[usr[p]].data}]_vars

\* A getChats found the tenant's entry expired, listed again and replaced it.
C21_Witness ==
  /\ last.op = "getChats" /\ last.res = "listed"
  /\ chatCache[last.usr].data = last.data
  /\ chatCache[last.usr].timestamp >= CACHE_TTL
  /\ nList = 2

\* Call p takes a step: it is made, resumes, or waits once more.
Acts(p) == pc'[p] # pc[p] \/ attempts'[p] # attempts[p]
\* The tenant the acting call p was called for.
ActorTenant(p) == IF pc[p] = "idle" THEN MadeUsr(p) ELSE usr[p]

(* C22: a step of a call made for one tenant leaves every other tenant's   *)
(* sessions-map entry, chat-cache entry and drivers as they were, holds no *)
(* session created for another tenant afterwards, and returns no list      *)
(* stored for another tenant.                                              *)
C22_TenantIsolation ==
  [][\A p \in Calls, v \in Users :
      (Acts(p) /\ v # ActorTenant(p)) =>
        /\ sessions'[v] = sessions[v]
        /\ chatCache'[v] = chatCache[v]
        /\ \A d \in SessionIds : owner[d] = v => drv'[d] = drv[d]
        /\ MadeCd(p) \in SessionIds => owner'[MadeCd(p)] = ActorTenant(p)
        /\ (pc'[p] = "done" /\ last'.res \in {"cached", "listed"}) =>
             (last'.data # 0 /\ last'.data # chatCache[v].data)]_vars

\* Tenant u1's session was torn down by its logout while u2's session and list are kept.
C22_Witness ==
  /\ last.op = "logout" /\ last.usr = "u1" /\ last.cd \in SessionIds
  /\ sessions["u1"] = 0
  /\ sessions["u2"] \in SessionIds
  /\ chatCache["u2"].data # 0

(* C23: a sendMessage calls the driver's send only in the step in which it *)
(* ends, only on a session whose 'ready' event has fired and whose         *)
(* clientReadyPromise is resolved, and with exactly the chatId and the     *)
(* message it was called with and no mentions, whether the driver's send   *)
(* then succeeds or fails; while it waits, and when it fails on a rejected *)
(* promise, it has made no send.                                           *)
C23_SendWaitsForReady ==
  [][\A p \in Calls :
      (op[p] = "sendMessage" /\ pc'[p] = "done") =>
        IF last'.res \in {"sent", "driverError"}
          THEN /\ pc[p] = "wait_ready"
               /\ info[cd[p]] /\ promise[cd[p]] = "resolved"
               /\ last'.sent = [chatId |-> arg[p].chatId, text |-> arg[p].text, mentions |-> <<>>]
               /\ arg[p].chatId \in ChatIds /\ arg[p].text \in Texts
          ELSE last'.sent = NoSend]_vars

\* The first call, a sendMessage made with no session registered, has sent "hi" to "c1".
C23_Witness ==
  /\ pc[1] = "done" /\ pc[2] = "idle"
  /\ last.op = "sendMessage" /\ last.res = "sent"
  /\ last.sent = [chatId |-> "c1", text |-> "hi", mentions |-> <<>>]

(* C24: a mentionEveryone whose lookup gives no chat, or a chat that is no *)
(* group, fails and makes no send; one whose lookup gives a group calls the *)
(* driver's send once, to its chatId with its message, mentioning every    *)
(* participant of the group in the group's order, and ends as that send    *)
(* does.                                                                   *)
C24_MentionOnlyInGroups ==
  [][\A p \in Calls :
      (op[p] = "mentionEveryone" /\ pc'[p] = "done") =>
        IF last'.chat.found /\ last'.chat.isGroup
          THEN /\ last'.res \in {"sent", "driverError"}
               /\ last'.sent.chatId = arg[p].chatId /\ last'.sent.text = arg[p].text
               /\ Len(last'.sent.mentions) = Len(last'.chat.participants)
               /\ \A i \in 1..Len(last'.chat.participants) :
                    last'.sent.mentions[i] = last'.chat.participants[i].id.serialized
          ELSE /\ last'.res \in {"error", "chatError", "driverError"}
               /\ last'.sent = NoSend]_vars

\* A mentionEveryone for "c1", which the driver found to be no group, failed without a send.
C24_Witness ==
  /\ last.op = "mentionEveryone" /\ last.res = "chatError"
  /\ last.chat.found /\ ~last.chat.isGroup
  /\ last.sent = NoSend
  /\ last.cd \in SessionIds /\ promise[last.cd] = "resolved"

(* C25: the list a getChats returns after a miss is the driver's listing   *)
(* with the chats that are no group left out and the groups kept in their  *)
(* order, one {id, name} element per group: id is the group's serialized   *)
(* id, name its name when that is not empty and the user part of its id    *)
(* otherwise.                                                              *)
C25_ListsGroupsOnly ==
  [][\A p \in Calls :
      (op[p] = "getChats" /\ pc'[p] = "done" /\ last'.res = "listed") =>
        LET L == last'.listing
            R == last'.result
        IN \E f \in [1..Len(R) -> 1..Len(L)] :
             /\ \A i, j \in 1..Len(R) : i < j => f[i] < f[j]
             /\ \A k \in 1..Len(L) : L[k].isGroup <=> (\E i \in 1..Len(R) : f[i] = k)
             /\ \A i \in 1..Len(R) :
                  /\ DOMAIN R[i] = {"id", "name"}
                  /\ R[i].id = L[f[i]].id.serialized
                  /\ R[i].name = IF L[f[i]].name = "" THEN L[f[i]].id.user ELSE L[f[i]].name]_vars

\* A getChats listed a chat that is no group and then a group without a name: the group alone is returned.
C25_Witness ==
  /\ last.op = "getChats" /\ last.res = "listed"
  /\ Len(last.listing) = 2
  /\ ~last.listing[1].isGroup
  /\ last.listing[2].isGroup /\ last.listing[2].name = ""
  /\ last.result = <<[id |-> last.listing[2].id.serialized, name |-> last.listing[2].id.user]>>

\* Call p was made by the handler of a request.
Handled(p) == req[p].st = "admitted" /\ pc[p] # "idle"

(* C26: every call of the service made by a controller's handler was made  *)
(* for a request whose subscription check returned true.                   *)
C26_SubscriptionCheckedFirst ==
  \A p \in Calls : Handled(p) => req[p].sub = "active"

(* C27: every call of the service made by a controller's handler was made  *)
(* for a request with a resolved user, under that user's id.               *)
C27_CallsRunUnderCallerIdentity ==
  \A p \in Calls :
    Handled(p) =>
      /\ req[p].user # "none"
      /\ pc[p] # "done" => usr[p] = req[p].user


\* The most recent return is a logout of tenant u that tore a session down.
LoggedOut(u) == last.op = "logout" /\ last.usr = u /\ last.cd \in SessionIds

\* No call is suspended at an await.
Quiet == \A q \in Calls : pc[q] \in {"idle", "done"}

(* C28: the next call that acquires a tenant's session after a logout of   *)
(* that tenant returned (a logout that found an entry, with no other call  *)
(* in flight) is handed a session that did not exist before the call: its  *)
(* driver is constructed and initialized by the call, its                  *)
(* clientReadyPromise is pending, and it is not the session the logout     *)
(* tore down.                                                              *)
C28_FreshSessionAfterLogout ==
  [][\A p \in Calls :
      (Made(p) /\ MadeOp(p) # "logout" /\ LoggedOut(MadeUsr(p)) /\ Quiet) =>
        /\ MadeCd(p) \in SessionIds
        /\ MadeCd(p) # last.cd
        /\ drv[MadeCd(p)] = "absent" /\ drv'[MadeCd(p)] = "initializing"
        /\ promise'[MadeCd(p)] = "pending"
        /\ ~info'[MadeCd(p)]]_vars

(* A call suspended on createClient holds a new session with a pending     *)
(* promise, made after a logout tore down a session that had become ready. *)
C28_Witness ==
  /\ LoggedOut("u1") /\ promise[last.cd] = "resolved"
  /\ pc[3] = "gc_set" /\ usr[3] = "u1" /\ cd[3] # last.cd
  /\ promise[cd[3]] = "pending" /\ drv[cd[3]] = "initializing"
  /\ sessions["u1"] = 0


\* A logout call returns in this step, with or without having found an entry.
AnyLogoutReturns == \E p \in Calls : pc[p] # "done" /\ pc'[p] = "done" /\ last'.op = "logout"

(* C29: in the definitions of logout that remove the session directory,    *)
(* every logout that returns leaves the tenant's session directory         *)
(* removed, whether or not the sessions map had an entry for the tenant.   *)
C29_HardLogoutPurges ==
  [][AnyLogoutReturns => ~disk'[last'.usr]]_vars


\* The loop of call p resumes from getState() in this step.
Checked(p) == pc[p] = "ck_state" /\ (pc'[p] = "done" \/ ~(chk'[p].passed \subseteq chk[p].passed))
\* It calls client.initialize() on the session it holds.
Reinitializes(p) == chk'[p].reinit # chk[p].reinit

(* C30: when checkAllSessions' loop resumes from getState() on a session,   *)
(* it calls initialize() on the session's driver exactly when the session   *)
(* had authenticated (its clientReadyPromise is resolved) and the driver    *)
(* reported a state other than 'CONNECTED'; it never calls initialize() on  *)
(* a session whose first initialization is still in progress; and the step  *)
(* leaves the sessions map as it was.                                       *)
C30_HealthCheckReconnectsAuthenticatedOnly ==
  [][\A p \in Calls :
      Checked(p) =>
        /\ Reinitializes(p) <=>
             (promise[cd[p]] = "resolved" /\ chk'[p].state \notin {"CONNECTED", "throw"})
        /\ Reinitializes(p) => ~(drv[cd[p]] = "initializing" /\ promise[cd[p]] = "pending")
        /\ sessions' = sessions]_vars


(* C31: getQRCode returns the empty string, which the controller answers   *)
(* with {ready: true}, only for a session whose 'ready' event has fired:   *)
(* when the call returns '' the clientReadyPromise of the session it holds *)
(* is resolved.                                                            *)
C31_ReadyOnlyAfterReadyEvent ==
  [][\A p \in Calls :
      (pc[p] = "qr_poll" /\ pc'[p] = "done" /\ last'.res = "empty") =>
        promise[cd[p]] = "resolved"]_vars


(* C32: in the placeholder variant getQRCode waits again only while no      *)
(* challenge is stored, and when it returns the empty string the client is *)
(* authenticated or the session stores no challenge: a challenge issued     *)
(* during the polling of an unauthenticated client is what the call        *)
(* returns.                                                                 *)
C32_PollingReturnsIssuedChallenge ==
  [][\A p \in Calls :
      (pc[p] = "qr_poll" /\ cd[p] \in SessionIds) =>
        /\ attempts'[p] > attempts[p] => qrCode[cd[p]] = 0
        /\ (pc'[p] = "done" /\ last'.res = "empty") => (info[cd[p]] \/ qrCode[cd[p]] = 0)]_vars


(* C33: a driver that createClient has started with client.initialize(),   *)
(* and so every driver that can emit an event, has the handlers of 'qr',    *)
(* 'ready', 'auth_failure' and 'disconnected' registered; and every         *)
(* getClientForUser that is under way returns even when the driver never    *)
(* emits an event, so it does not wait for the authentication.              *)
C33_HandlersBeforeInitialize ==
  /\ [](\A d \in SessionIds : drv[d] \notin {"absent", "constructed"} => promise[d] # "none")
  /\ \A p \in Calls : (pc[p] \notin {"idle", "done"}) ~> (pc[p] = "done")

(* getClientForUser has gone through the statements of createClient and     *)
(* returned a session that is still initializing, its promise pending and   *)
(* no event handled.                                                        *)
C33_Witness ==
  /\ last.op = "getClientForUser" /\ last.res = "ok" /\ last.cd \in SessionIds
  /\ sessions[last.usr] = last.cd
  /\ drv[last.cd] = "initializing" /\ promise[last.cd] = "pending"
  /\ nQr[last.cd] = 0


(* C34: the entry a getChats miss stores is stamped with the time of the   *)
(* store, and a store never moves the timestamp of the tenant's entry      *)
(* backwards.                                                               *)
C34_StoredWithCurrentTime ==
  [][\A u \in Users :
      chatCache'[u] # chatCache[u] =>
        /\ chatCache'[u].timestamp = clock'
        /\ chatCache'[u].timestamp >= chatCache[u].timestamp]_vars


\* Call p ends in this step with a failure of the driver call it awaited or of the chat it looked up.
DriverCallFails(p) == pc[p] # "done" /\ pc'[p] = "done" /\ last'.res \in {"driverError", "chatError"}

(* C35: when the listing, the chat lookup or the send of a call fails       *)
(* after authentication, only that call ends: the sessions map, the         *)
(* outcome of every clientReadyPromise and the chat cache stay as they      *)
(* were, so nothing is stored for a failed listing, and every other call    *)
(* stays where it was.                                                      *)
C35_DriverErrorLeavesStateAlone ==
  [][\A p \in Calls :
      DriverCallFails(p) =>
        /\ promise[cd[p]] = "resolved"
        /\ UNCHANGED <<sessions, promise, chatCache>>
        /\ \A q \in Calls \ {p} : pc'[q] = pc[q] /\ cd'[q] = cd[q]]_vars

(* A listing has just failed over a cached list that another call had      *)
(* stored: the entry and the session are still there.                       *)
C35_Witness ==
  /\ last.op = "getChats" /\ last.res = "driverError"
  /\ chatCache[last.usr].data # 0
  /\ sessions[last.usr] = last.cd /\ promise[last.cd] = "resolved"


(* C36: every challenge stored for a session that has not authenticated has *)
(* its 2-minute expiry scheduled: while clientReadyPromise is pending, a    *)
(* stored qrCode goes with an armed expiry timer.                           *)
C36_EveryChallengeExpires ==
  \A d \in SessionIds : (qrCode[d] # 0 /\ promise[d] = "pending") => qrTimer[d] = "armed"


(* C37: in the first definition, whose 'ready' handler clears qrCode, a     *)
(* session whose 'ready' event has fired stores no challenge, so getQRCode  *)
(* finds clientData.qrCode empty: a 'qr' handler that resumes from its      *)
(* rendering after 'ready' does not store its challenge.                    *)
C37_LateRenderingStoresNothing ==
  \A d \in SessionIds : (drv[d] = "ready" /\ pendingQr[d] = 0) => qrCode[d] = 0


(* C38: no step of a logout changes the chat cache, and a getChats made    *)
(* for a tenant that has no session, less than CACHE_TTL after the         *)
(* timestamp of the tenant's cached list, returns that list in the same    *)
(* step: no session is registered, no driver constructed, no listing       *)
(* requested.                                                               *)
C38_LogoutKeepsChatCache ==
  [][\A p \in Calls :
      /\ (Acts(p) /\ (op[p] = "logout" \/ (Made(p) /\ MadeOp(p) = "logout"))) =>
           chatCache' = chatCache
      /\ (Made(p) /\ MadeOp(p) = "getChats" /\ sessions[MadeUsr(p)] = 0
            /\ chatCache[MadeUsr(p)].data # 0
            /\ clock - chatCache[MadeUsr(p)].timestamp < CACHE_TTL) =>
           /\ pc'[p] = "done" /\ last'.res = "cached"
           /\ last'.data = chatCache[MadeUsr(p)].data
           /\ UNCHANGED <<sessions, drv, nList, chatCache>>]_vars

(* A getChats has just returned the cached list, minutes after it was      *)
(* fetched, while the session it was fetched through is torn down and the  *)
(* tenant has none.                                                        *)
C38_Witness ==
  /\ last.op = "getChats" /\ last.res = "cached" /\ last.data = chatCache["u1"].data
  /\ sessions["u1"] = 0
  /\ clock - chatCache["u1"].timestamp > 1
  /\ \E d \in SessionIds : owner[d] = "u1" /\ drv[d] = "destroyed"
  /\ \A d \in SessionIds : drv[d] \in {"absent", "destroyed"}


(* C39: when a logout finishes its disposal while the sessions map holds,  *)
(* for its tenant, a session other than the one it disposed, that step     *)
(* leaves the tenant's entry and the tenant's storage directory as they    *)
(* were.                                                                    *)
C39_LogoutEvictsOnlyItsOwn ==
  [][\A p \in Calls :
      (pc[p] = "lo_destroy" /\ pc'[p] # "lo_destroy"
         /\ sessions[usr[p]] \in SessionIds \ {cd[p]}) =>
        /\ sessions'[usr[p]] = sessions[usr[p]]
        /\ disk'[usr[p]] = disk[usr[p]]]_vars
====
